---- MODULE Spec2Model ----
(***************************************************************************)
(* Model of the schema knowledge graph of pydantic-sql-agent               *)
(* (src/utils/knowledge_graph.py, class DBKnowledgeGraph) together with    *)
(* the introspection helpers it calls (src/tools/sqlite_async.py).         *)
(*                                                                         *)
(* Python values are encoded as pairs <<type, repr>> so that values of     *)
(* different Python types stay comparable.  A Python dict with optional    *)
(* keys is a record with a field "keys" holding the keys that are present. *)
(* A file holding JSON is modelled by the document json.load returns.      *)
(***************************************************************************)
EXTENDS Integers, Sequences, FiniteSets, TLC

(***************************** bounds **************************************)
\* Number of tables a database may hold (sqlite_master rows of type table).
MaxTables == 3
\* Number of foreign keys one table may declare.
MaxFks == 2
\* Number of foreign keys a whole database may declare.
MaxEdges == 3

(***************************** helpers *************************************)
Range(s) == {s[i] : i \in DOMAIN s}

SeqsUpTo(S, n) == UNION {[1..k -> S] : k \in 0..n}

RECURSIVE SumSeq(_)
SumSeq(s) == IF s = <<>> THEN 0 ELSE Head(s) + SumSeq(Tail(s))

\* list.index / first position of x in s (0 when absent)
IndexOf(s, x) == IF x \in Range(s) THEN CHOOSE i \in DOMAIN s : s[i] = x /\ \A j \in 1..(i-1) : s[j] # x ELSE 0

Reverse(s) == [i \in 1..Len(s) |-> s[Len(s) + 1 - i]]

(***************************** names ***************************************)
\* The table names a database may use, in sqlite_master order.
TableList == SubSeq(<<"A", "B", "C", "D", "E">>, 1, MaxTables)
\* Names a caller may pass: the tables, and "X", which no database holds.
Names == Range(TableList) \cup {"X"}
\* The two database paths of the model.  os.path.splitext maps both to the
\* same cache file, a_graph.json.
DbPaths == {"a.db", "a.sqlite"}

(***************************** python values *******************************)
\* An int n, a str s, None and a bytes object (a BLOB column value).
PyInt(n) == <<"int", n>>
PyStr(s) == <<"str", s>>
PyNone == <<"NoneType", "None">>
PyBytes(s) == <<"bytes", s>>
\* json.dumps(val) raises TypeError exactly for the values JSON cannot encode.
JsonSerializable(val) == val[1] # "bytes"
\* str(val) of a value json.dumps refused
PyStrOf(val) == PyStr("b'" \o val[2] \o "'")

(***************************** nx.DiGraph **********************************)
(* node: the nodes in insertion order (the key order of _node/_succ/_pred); *)
(* attr: the node attribute dicts; succ/pred: the adjacency dicts, each in  *)
(* insertion order; edge: the edge attribute dict shared by succ and pred.  *)
NoAttrs == [keys |-> {}, type |-> "", columns |-> <<>>, primary_keys |-> <<>>,
            sample_data |-> [rows |-> <<>>, stats |-> <<>>]]
NoEdge == [relation |-> "", from_column |-> "", to_column |-> ""]

DiGraph == [node |-> <<>>,
            attr |-> [n \in Names |-> NoAttrs],
            succ |-> [n \in Names |-> <<>>],
            pred |-> [n \in Names |-> <<>>],
            edge |-> [e \in Names \X Names |-> NoEdge]]

\* n in G
HasNode(G, n) == n \in Range(G.node)
\* G.has_edge(u, v)
has_edge(G, u, v) == HasNode(G, u) /\ v \in Range(G.succ[u])

\* dict.update on a node attribute dict
UpdateAttrs(old, new) ==
    [keys |-> old.keys \cup new.keys,
     type |-> IF "type" \in new.keys THEN new.type ELSE old.type,
     columns |-> IF "columns" \in new.keys THEN new.columns ELSE old.columns,
     primary_keys |-> IF "primary_keys" \in new.keys THEN new.primary_keys ELSE old.primary_keys,
     sample_data |-> IF "sample_data" \in new.keys THEN new.sample_data ELSE old.sample_data]

\* The node is created with an empty attribute dict when it is new.
EnsureNode(G, n) == IF HasNode(G, n) THEN G ELSE [G EXCEPT !.node = Append(@, n)]

\* G.add_node(n, **attrs)
add_node(G, n, attrs) ==
    [EnsureNode(G, n) EXCEPT !.attr[n] = UpdateAttrs(@, attrs)]

\* Variant of add_edge in which an edge that exists keeps its attributes.
AddEdgeKeepsFirst(G, u, v, eattrs) ==
    LET G2 == EnsureNode(EnsureNode(G, u), v) IN
    [G2 EXCEPT !.edge[<<u, v>>] = IF v \in Range(G2.succ[u]) THEN @ ELSE eattrs,
               !.succ[u] = IF v \in Range(@) THEN @ ELSE Append(@, v),
               !.pred[v] = IF u \in Range(@) THEN @ ELSE Append(@, u)]

\* G.add_edge(u, v, **eattrs): u then v are created when new; the edge dict
\* is updated in place, so a second edge u->v keeps its position in succ[u]
\* and pred[v] and takes the new attributes.
add_edge(G, u, v, eattrs) ==
    LET G2 == EnsureNode(EnsureNode(G, u), v) IN
    [G2 EXCEPT !.edge[<<u, v>>] = eattrs,
               !.succ[u] = IF v \in Range(@) THEN @ ELSE Append(@, v),
               !.pred[v] = IF u \in Range(@) THEN @ ELSE Append(@, u)]

\* G.edges: for every node in node order, its successors in succ order.
RECURSIVE EdgesFrom(_, _)
EdgesFrom(G, k) ==
    IF k > Len(G.node) THEN <<>>
    ELSE [j \in 1..Len(G.succ[G.node[k]]) |-> <<G.node[k], G.succ[G.node[k]][j]>>]
         \o EdgesFrom(G, k + 1)
GraphEdges(G) == EdgesFrom(G, 1)

(***************************** the database ********************************)
(* A database: the tables sqlite_master lists, each table's foreign keys   *)
(* (PRAGMA foreign_key_list order), whether table A's id column holds a    *)
(* BLOB, the statements that fail (a table's name for its PRAGMA           *)
(* statements, "sqlite_master" for the table listing, "t.*" for the        *)
(* bounded select on t, "t.c" for the statistics queries on column c), and,*)
(* for a table A with many rows, the values of its column fk1 row by row.  *)
FkColumns == <<"fk1", "fk2", "fk3", "fk4">>
ForeignKey(k, target) == [column |-> FkColumns[k], referenced_table |-> target, referenced_column |-> "id"]
FkLists == {[k \in DOMAIN ts |-> ForeignKey(k, ts[k])] : ts \in SeqsUpTo(Range(TableList), MaxFks)}
NumFks(d) == SumSeq([k \in 1..Len(d.tables) |-> Len(d.fks[d.tables[k]])])

Database(n, fks, blob, broken) ==
    [tables |-> SubSeq(TableList, 1, n),
     fks |-> [t \in Range(TableList) |-> IF IndexOf(TableList, t) <= n THEN fks[t] ELSE <<>>],
     blob |-> blob, broken |-> broken, rows |-> <<>>]
\* Every foreign-key structure, on sound tables without BLOBs.
PlainDatabases ==
    {d \in {Database(n, fks, FALSE, {}) : n \in 0..MaxTables, fks \in [Range(TableList) -> FkLists]} :
        NumFks(d) <= MaxEdges}
\* One table holding a BLOB; two tables A -> B of which one cannot be described.
BlobDatabase == Database(1, [t \in Range(TableList) |-> <<>>], TRUE, {})
BrokenDatabases ==
    {Database(2, [t \in Range(TableList) |-> IF t = "A" THEN <<ForeignKey(1, "B")>> ELSE <<>>], FALSE, {b}) :
        b \in {"A", "B"}}
\* A file that opens and is no database: every statement fails, the first
\* being the SELECT on sqlite_master.
NotADatabase == Database(1, [t \in Range(TableList) |-> <<>>], FALSE, {"sqlite_master", "A"})
\* Two tables A -> B on which one of the sampler's statements on A fails.
FlakyDatabases ==
    {Database(2, [t \in Range(TableList) |-> IF t = "A" THEN <<ForeignKey(1, "B")>> ELSE <<>>], FALSE, {b}) :
        b \in {"A.*", "A.id", "A.fk1"}}
Databases == PlainDatabases \cup {BlobDatabase} \cup BrokenDatabases \cup {NotADatabase} \cup FlakyDatabases

\* PRAGMA table_info: the columns (name, type, pk flag) of a table.
TableColumns(d, t) ==
    <<[name |-> "id", type |-> IF d.blob /\ t = "A" THEN "BLOB" ELSE "INTEGER", pk |-> 1]>>
    \o [k \in 1..Len(d.fks[t]) |-> [name |-> d.fks[t][k].column, type |-> "INTEGER", pk |-> 0]]
\* A self-referencing table A whose rows have the ids 1, 2, ... and in fk1
\* the values 1..n followed by some repeated ones: n or n + 1 distinct
\* values around the sampler's threshold.
MaxDistinct == 21
MaxRepeats == 3
WideDatabase(n, repeats) ==
    [Database(1, [t \in Range(TableList) |-> IF t = "A" THEN <<ForeignKey(1, "A")>> ELSE <<>>], FALSE, {})
        EXCEPT !.rows = [k \in 1..n |-> k] \o repeats]
WideDatabases ==
    {WideDatabase(n, repeats) : n \in (MaxDistinct - 3)..MaxDistinct,
                                repeats \in SeqsUpTo({1, 2, MaxDistinct - 2}, MaxRepeats)}

\* The rows of a table, each a tuple in column order; None is SQL NULL.
TableRows(d, t) ==
    IF t = "A" /\ d.rows # <<>>
    THEN [r \in DOMAIN d.rows |->
            [c \in 1..Len(TableColumns(d, t)) |->
                IF c = 1 THEN PyInt(r) ELSE IF c = 2 THEN PyInt(d.rows[r]) ELSE PyNone]]
    ELSE
    <<[c \in 1..Len(TableColumns(d, t)) |-> IF c = 1 /\ d.blob /\ t = "A" THEN PyBytes("x") ELSE PyInt(1)],
      [c \in 1..Len(TableColumns(d, t)) |-> IF c = 1 THEN PyInt(2) ELSE PyNone]>>

(***************************** tools/sqlite_async.py ***********************)
\* list_tables_names(db): the JSON list of the table names, or the text
\* "Error: ..." when the SELECT fails, on which json.loads raises.
list_tables_names(d) ==
    IF "sqlite_master" \in d.broken THEN [error |-> TRUE, tables |-> <<>>]
    ELSE [error |-> FALSE, tables |-> d.tables]

\* describe_table(db, table_name): the schema as JSON, or the text
\* "Error: ..." when a PRAGMA fails, on which json.loads raises.
describe_table(d, t) ==
    IF t \in d.broken THEN [error |-> TRUE, columns |-> <<>>, primary_keys |-> <<>>, foreign_keys |-> <<>>]
    ELSE LET columns == TableColumns(d, t) IN
         [error |-> FALSE,
          columns |-> [k \in DOMAIN columns |-> [name |-> columns[k].name, type |-> columns[k].type]],
          primary_keys |-> LET pks == SelectSeq(columns, LAMBDA c : c.pk = 1) IN
                           [k \in DOMAIN pks |-> pks[k].name],
          foreign_keys |-> d.fks[t]]

(***************************** _get_sample_data ****************************)
\* The sampler's numbers: rows sampled per table, the distinct-count
\* threshold below which common values are collected, and how many.
SampleLimit == 5
CommonValuesThreshold == 20
CommonValuesLimit == 5

\* SQL ordering of the values of the model: integers by value, a BLOB after them.
SqlLeq(a, b) == IF a[1] = "int" /\ b[1] = "int" THEN a[2] <= b[2] ELSE (a[1] = "int" \/ a = b)
\* The non-NULL values of column c of the table.
ColumnValues(rows, c) == LET vals == [r \in DOMAIN rows |-> rows[r][c]] IN SelectSeq(vals, LAMBDA v : v # PyNone)
\* COUNT(*) of value v in vals
CountOf(vals, v) == Cardinality({i \in DOMAIN vals : vals[i] = v})
\* MIN / MAX (NULL, read as None, over no values)
SqlMin(vals) == IF vals = <<>> THEN PyNone ELSE CHOOSE v \in Range(vals) : \A w \in Range(vals) : SqlLeq(v, w)
SqlMax(vals) == IF vals = <<>> THEN PyNone ELSE CHOOSE v \in Range(vals) : \A w \in Range(vals) : SqlLeq(w, v)
\* GROUP BY c ORDER BY count DESC LIMIT n; groups of equal count are taken
\* in value order, the order in which the aggregation produces them.
RECURSIVE TopGroups(_, _, _)
TopGroups(vals, left, n) ==
    IF n = 0 \/ left = {} THEN <<>>
    ELSE LET best == CHOOSE v \in left : \A w \in left :
                        \/ CountOf(vals, v) > CountOf(vals, w)
                        \/ CountOf(vals, v) = CountOf(vals, w) /\ SqlLeq(v, w)
         IN <<[value |-> best, count |-> CountOf(vals, best)]>> \o TopGroups(vals, left \ {best}, n - 1)

\* Variant of ColumnStats that collects common values up to and including
\* the threshold.
ColumnStatsUpToThreshold(rows, c) ==
    LET vals == ColumnValues(rows, c)
        distinct_count == Cardinality(Range(vals))
    IN [distinct_count |-> distinct_count,
        min_value |-> SqlMin(vals),
        max_value |-> SqlMax(vals),
        common_values |-> <<"list", IF distinct_count <= CommonValuesThreshold
                                    THEN TopGroups(vals, Range(vals), CommonValuesLimit) ELSE <<>>>>]

\* One column's statistics entry.
ColumnStats(rows, c) ==
    LET vals == ColumnValues(rows, c)
        distinct_count == Cardinality(Range(vals))
    IN [distinct_count |-> distinct_count,
        min_value |-> SqlMin(vals),
        max_value |-> SqlMax(vals),
        common_values |-> <<"list", IF distinct_count < CommonValuesThreshold
                                    THEN TopGroups(vals, Range(vals), CommonValuesLimit) ELSE <<>>>>]

\* The bounded select on table t fails; a statistics query on column col
\* of table t fails.
SelectFails(d, t) == (t \o ".*") \in d.broken
StatsFail(d, t, col) == (t \o "." \o col) \in d.broken

\* Variant of get_sample_data in which a column whose statistics failed is
\* entered with empty statistics.
SampleDataEmptyEntries(d, t, limit) ==
    LET columns == TableColumns(d, t)
        all == TableRows(d, t)
        rows == SubSeq(all, 1, IF Len(all) < limit THEN Len(all) ELSE limit)
    IN IF SelectFails(d, t) THEN [rows |-> <<>>, stats |-> <<>>]
       ELSE [rows |-> [r \in DOMAIN rows |->
                        [c \in DOMAIN columns |->
                            <<columns[c].name, IF rows[r][c] = PyNone THEN PyStr("NULL") ELSE rows[r][c]>>]],
             stats |-> [c \in DOMAIN columns |->
                          <<columns[c].name,
                            IF StatsFail(d, t, columns[c].name)
                            THEN [distinct_count |-> PyNone, min_value |-> PyNone, max_value |-> PyNone,
                                  common_values |-> <<"list", <<>>>>]
                            ELSE ColumnStats(all, c)>>]]

\* Variant of get_sample_data in which the statistics loop ends at the
\* first column that fails.
SampleDataStopsAtFailure(d, t, limit) ==
    LET columns == TableColumns(d, t)
        all == TableRows(d, t)
        rows == SubSeq(all, 1, IF Len(all) < limit THEN Len(all) ELSE limit)
        done == SelectSeq([c \in DOMAIN columns |-> c],
                          LAMBDA c : \A b \in 1..c : ~StatsFail(d, t, columns[b].name))
    IN IF SelectFails(d, t) THEN [rows |-> <<>>, stats |-> <<>>]
       ELSE [rows |-> [r \in DOMAIN rows |->
                        [c \in DOMAIN columns |->
                            <<columns[c].name, IF rows[r][c] = PyNone THEN PyStr("NULL") ELSE rows[r][c]>>]],
             stats |-> [k \in DOMAIN done |-> <<columns[done[k]].name, ColumnStats(all, done[k])>>]]

\* _get_sample_data(db, table_name, limit): up to limit rows as dicts
\* (column, value) with None written "NULL", and the statistics of every
\* column whose statistics queries succeed; no rows and no statistics when
\* the bounded select fails.  A dict is a sequence of (key, value) pairs in
\* insertion order.
get_sample_data(d, t, limit) ==
    LET columns == TableColumns(d, t)
        all == TableRows(d, t)
        rows == SubSeq(all, 1, IF Len(all) < limit THEN Len(all) ELSE limit)
        done == SelectSeq([c \in DOMAIN columns |-> c], LAMBDA c : ~StatsFail(d, t, columns[c].name))
    IN IF SelectFails(d, t) THEN [rows |-> <<>>, stats |-> <<>>]
       ELSE [rows |-> [r \in DOMAIN rows |->
                        [c \in DOMAIN columns |->
                            <<columns[c].name, IF rows[r][c] = PyNone THEN PyStr("NULL") ELSE rows[r][c]>>]],
             stats |-> [k \in DOMAIN done |-> <<columns[done[k]].name, ColumnStats(all, done[k])>>]]

(***************************** _build_from_db ******************************)
\* The foreign keys of one table added as edges, in order.
RECURSIVE AddForeignKeys(_, _, _, _)
AddForeignKeys(G, t, fks, k) ==
    IF k > Len(fks) THEN G
    ELSE AddForeignKeys(add_edge(G, t, fks[k].referenced_table,
                                 [relation |-> "references", from_column |-> fks[k].column,
                                  to_column |-> fks[k].referenced_column]),
                        t, fks, k + 1)

\* One pass of the table loop for a table that could be described: the node
\* with its metadata, then its foreign keys.
BuildTable(G, d, t) ==
    LET schema == describe_table(d, t)
        sample_data == get_sample_data(d, t, SampleLimit)
        withNode == add_node(G, t, [keys |-> {"type", "columns", "primary_keys", "sample_data"},
                                    type |-> "table", columns |-> schema.columns,
                                    primary_keys |-> schema.primary_keys, sample_data |-> sample_data])
    IN AddForeignKeys(withNode, t, schema.foreign_keys, 1)

(***************************** the cache file ******************************)
(* The cache file: whether it exists, whether its text parses as JSON, and *)
(* the parsed document.  A document records its top-level shape, the keys  *)
(* it holds, the shape of "nodes" and its entries in order (each a name    *)
(* with an entry that is an attribute object or a number), the edge        *)
(* records, the shape of "metadata" and metadata.db_path (None if absent). *)
NoDoc == [top |-> "object", keys |-> {}, nodes_shape |-> "object", nodes |-> <<>>,
          edges |-> <<>>, metadata_shape |-> "object", db_path |-> PyNone]
AbsentFile == [exists |-> FALSE, json |-> FALSE, doc |-> NoDoc]
\* A file left empty or cut short: it exists and does not parse.
BrokenFile == [exists |-> TRUE, json |-> FALSE, doc |-> NoDoc]
JsonFile(doc) == [exists |-> TRUE, json |-> TRUE, doc |-> doc]

\* os.path.exists(self.cache_file)
path_exists(file) == file.exists

\* json.dumps(node_data["sample_data"]) succeeds
StatsSerializable(st) ==
    /\ JsonSerializable(st.min_value) /\ JsonSerializable(st.max_value)
    /\ \A k \in DOMAIN st.common_values[2] : JsonSerializable(st.common_values[2][k].value)
SampleDataSerializable(sd) ==
    /\ \A r \in DOMAIN sd.rows : \A c \in DOMAIN sd.rows[r] : JsonSerializable(sd.rows[r][c][2])
    /\ \A c \in DOMAIN sd.stats : StatsSerializable(sd.stats[c][2])

\* The clean copy _save_to_cache makes of sample data json.dumps refused:
\* row values and statistics that do not serialize are replaced by str(val);
\* for a common_values list that is the text of the whole list.
CleanValue(val) == IF JsonSerializable(val) THEN val ELSE PyStrOf(val)
CleanSampleData(sd) ==
    [rows |-> [r \in DOMAIN sd.rows |-> [c \in DOMAIN sd.rows[r] |->
                  <<sd.rows[r][c][1], CleanValue(sd.rows[r][c][2])>>]],
     stats |-> [c \in DOMAIN sd.stats |->
                  LET st == sd.stats[c][2] IN
                  <<sd.stats[c][1],
                    [distinct_count |-> st.distinct_count,
                     min_value |-> CleanValue(st.min_value),
                     max_value |-> CleanValue(st.max_value),
                     common_values |->
                        IF \A k \in DOMAIN st.common_values[2] : JsonSerializable(st.common_values[2][k].value)
                        THEN st.common_values ELSE PyStr("[...]")]>>]]

\* The document _save_to_cache writes for graph G of an instance on db_path.
\* metadata.timestamp is written and never read; it is left out.
SnapshotOf(G, db_path) ==
    [top |-> "object", keys |-> {"nodes", "edges", "metadata"},
     nodes_shape |-> "object",
     nodes |-> [k \in DOMAIN G.node |->
                  LET node_data == G.attr[G.node[k]] IN
                  <<G.node[k],
                    [shape |-> "object",
                     attrs |-> IF "sample_data" \in node_data.keys
                                  /\ ~SampleDataSerializable(node_data.sample_data)
                               THEN [node_data EXCEPT !.sample_data = CleanSampleData(@)]
                               ELSE node_data]>>],
     edges |-> LET es == GraphEdges(G) IN
               [k \in DOMAIN es |->
                  [from |-> es[k][1], to |-> es[k][2],
                   relation |-> G.edge[es[k]].relation,
                   from_column |-> G.edge[es[k]].from_column,
                   to_column |-> G.edge[es[k]].to_column]],
     metadata_shape |-> "object",
     db_path |-> PyStr(db_path)]

\* _save_to_cache(): the file afterwards.  outcome is what the file system
\* does: "ok"; "open" (open(..., 'w') raises, the file is untouched);
\* "write" (the write raises after open truncated the file).  The
\* exception is caught in either case.
save_to_cache(G, db_path, file, outcome) ==
    CASE outcome = "ok" -> JsonFile(SnapshotOf(G, db_path))
      [] outcome = "open" -> file
      [] outcome = "write" -> BrokenFile

(***************************** _is_cache_valid *****************************)
\* Variant of ScanSampleData that looks for the key "samples".
RECURSIVE ScanSamples(_, _)
ScanSamples(nodes, k) ==
    IF k > Len(nodes) THEN "absent"
    ELSE IF nodes[k][2].shape # "object" THEN "TypeError"
    ELSE IF "samples" \in nodes[k][2].attrs.keys THEN "found"
    ELSE ScanSamples(nodes, k + 1)

\* The loop over data["nodes"].items(): "found" at the first entry holding
\* "sample_data", "TypeError" at an entry that is no container, "absent"
\* when the entries run out.
RECURSIVE ScanSampleData(_, _)
ScanSampleData(nodes, k) ==
    IF k > Len(nodes) THEN "absent"
    ELSE IF nodes[k][2].shape # "object" THEN "TypeError"
    ELSE IF "sample_data" \in nodes[k][2].attrs.keys THEN "found"
    ELSE ScanSampleData(nodes, k + 1)

\* Variant of is_cache_valid without the comparison of metadata.db_path.
CacheValidForAnyPath(file, db_path) ==
    IF ~file.exists THEN "False"
    ELSE IF ~file.json THEN "False"
    ELSE LET data == file.doc IN
         IF data.top # "object" THEN "AttributeError"
         ELSE IF "nodes" \in data.keys /\ data.nodes_shape # "object" THEN "AttributeError"
         ELSE LET scan == IF "nodes" \in data.keys THEN ScanSampleData(data.nodes, 1) ELSE "absent" IN
              IF scan = "TypeError" THEN "TypeError"
              ELSE IF scan = "absent" THEN "False"
              ELSE "True"

\* _is_cache_valid(): "True", "False", or the exception that escapes it.
\* Only json.JSONDecodeError and FileNotFoundError are caught.
is_cache_valid(file, db_path) ==
    IF ~file.exists THEN "False"
    ELSE IF ~file.json THEN "False"
    ELSE LET data == file.doc IN
         IF data.top # "object" THEN "AttributeError"
         ELSE IF "nodes" \in data.keys /\ data.nodes_shape # "object" THEN "AttributeError"
         ELSE LET scan == IF "nodes" \in data.keys THEN ScanSampleData(data.nodes, 1) ELSE "absent" IN
              IF scan = "TypeError" THEN "TypeError"
              ELSE IF scan = "absent" THEN "False"
              ELSE IF "metadata" \in data.keys /\ data.metadata_shape # "object" THEN "AttributeError"
              ELSE IF "metadata" \in data.keys /\ data.db_path = PyStr(db_path) THEN "True"
              ELSE "False"

(***************************** _load_from_cache ****************************)
\* The node loop of _load_from_cache from entry k on: the graph, and the
\* exception that ended the loop ("" if none).
RECURSIVE LoadNodes(_, _, _)
LoadNodes(G, nodes, k) ==
    IF k > Len(nodes) THEN [exc |-> "", graph |-> G]
    ELSE IF nodes[k][2].shape # "object" THEN [exc |-> "TypeError", graph |-> G]
    ELSE LoadNodes(add_node(G, nodes[k][1], nodes[k][2].attrs), nodes, k + 1)

RECURSIVE LoadEdges(_, _, _)
LoadEdges(G, edges, k) ==
    IF k > Len(edges) THEN G
    ELSE LoadEdges(add_edge(G, edges[k].from, edges[k].to,
                            [relation |-> edges[k].relation, from_column |-> edges[k].from_column,
                             to_column |-> edges[k].to_column]),
                   edges, k + 1)

\* _load_from_cache(): self.graph afterwards and the exception raised ("" if
\* none).  The graph is replaced by a fresh DiGraph before the first node is
\* read, so a failure leaves the part loaded so far.
load_from_cache(G, file) ==
    IF ~file.exists THEN [exc |-> "FileNotFoundError", graph |-> G]
    ELSE IF ~file.json THEN [exc |-> "JSONDecodeError", graph |-> G]
    ELSE LET data == file.doc IN
         IF data.top # "object" THEN [exc |-> "TypeError", graph |-> DiGraph]
         ELSE IF "nodes" \notin data.keys THEN [exc |-> "KeyError", graph |-> DiGraph]
         ELSE IF data.nodes_shape # "object" THEN [exc |-> "AttributeError", graph |-> DiGraph]
         ELSE LET loaded == LoadNodes(DiGraph, data.nodes, 1) IN
              IF loaded.exc # "" THEN loaded
              ELSE IF "edges" \notin data.keys THEN [exc |-> "KeyError", graph |-> loaded.graph]
              ELSE [exc |-> "", graph |-> LoadEdges(loaded.graph, data.edges, 1)]

(***************************** query planner *******************************)
(* Results: a Python list is <<"list", items>>, a dict result <<"dict",    *)
(* record>>, None is PyNone; an error result is the dict {"error": text},  *)
(* its text kept as the pieces the f-string joins.                         *)
ErrorResult(text) == <<"dict", [error |-> text]>>
NotInitializedError == ErrorResult(<<"Knowledge graph not initialized">>)
TableNotFoundError(table_name) == ErrorResult(<<"Table '", table_name, "' not found in graph">>)
ColumnNotFoundError(table_name, column_name) ==
    ErrorResult(<<"Column '", column_name, "' not found in table '", table_name, "'">>)
NoSampleDataError(column_name) == ErrorResult(<<"No sample data available for column '", column_name, "'">>)
IsErrorResult(r) == r[1] = "dict" /\ "error" \in DOMAIN r[2]

\* get_table_info: the relationships list, outgoing edges (succ order) and
\* then incoming edges (pred order).
Relationships(G, table_name) ==
    [k \in DOMAIN G.succ[table_name] |->
        LET target == G.succ[table_name][k] IN
        [target_table |-> target, relation_type |-> G.edge[<<table_name, target>>].relation,
         from_column |-> G.edge[<<table_name, target>>].from_column,
         to_column |-> G.edge[<<table_name, target>>].to_column]]
    \o
    [k \in DOMAIN G.pred[table_name] |->
        LET source == G.pred[table_name][k] IN
        [source_table |-> source, relation_type |-> G.edge[<<source, table_name>>].relation,
         from_column |-> G.edge[<<source, table_name>>].from_column,
         to_column |-> G.edge[<<source, table_name>>].to_column]]

\* get_table_info(table_name).  Sample values are never dicts or lists, so
\* the formatted rows are the sampled rows.
get_table_info(G, is_initialized, table_name) ==
    IF ~is_initialized THEN NotInitializedError
    ELSE IF ~HasNode(G, table_name) THEN TableNotFoundError(table_name)
    ELSE LET node_data == G.attr[table_name]
             sampled == "sample_data" \in node_data.keys
         IN <<"dict",
              [keys |-> node_data.keys \cup {"relationships"}
                        \cup (IF sampled THEN {"sample_rows", "column_statistics"} ELSE {}),
               type |-> node_data.type, columns |-> node_data.columns,
               primary_keys |-> node_data.primary_keys, sample_data |-> node_data.sample_data,
               relationships |-> Relationships(G, table_name),
               sample_rows |-> IF sampled THEN node_data.sample_data.rows ELSE <<>>,
               column_statistics |-> IF sampled THEN node_data.sample_data.stats ELSE <<>>]>>

\* tools/knowledge_graph_tool.py, get_table_info(kg, table_name): the text
\* the agent is given, kept as its lines and each line as the pieces the
\* f-string joins.  table_info.get(key, []) is [] on a dict without the key,
\* the error dict among them.  Of a sampled row the text shows the primary
\* key columns (no column name of the model holds NAME, CODE or ID), of the
\* first three rows.
tool_get_table_info(G, is_initialized, table_name) ==
    IF ~is_initialized THEN <<<<"Knowledge graph is not initialized.">>>>
    ELSE LET table_info == get_table_info(G, is_initialized, table_name)
             has(key) == ~IsErrorResult(table_info) /\ key \in table_info[2].keys
             columns == IF has("columns") THEN table_info[2].columns ELSE <<>>
             primary_keys == IF has("primary_keys") THEN table_info[2].primary_keys ELSE <<>>
             relationships == IF has("relationships") THEN table_info[2].relationships ELSE <<>>
             sample_rows == IF has("sample_rows")
                            THEN SubSeq(table_info[2].sample_rows, 1,
                                        IF Len(table_info[2].sample_rows) < 3
                                        THEN Len(table_info[2].sample_rows) ELSE 3)
                            ELSE <<>>
         IN <<<<"### Table: ", table_name>>, <<"#### Columns:">>>>
            \o [c \in DOMAIN columns |->
                  <<"- ", columns[c].name, " (", columns[c].type, ")">>
                  \o (IF has("primary_keys") /\ columns[c].name \in Range(primary_keys)
                      THEN <<" (PRIMARY KEY)">> ELSE <<>>)]
            \o (IF relationships = <<>> THEN <<>>
                ELSE <<<<"#### Relationships:">>>>
                     \o [k \in DOMAIN relationships |->
                           IF "target_table" \in DOMAIN relationships[k]
                           THEN <<"- References ", relationships[k].target_table, " via ",
                                  relationships[k].from_column, " -> ", relationships[k].to_column>>
                           ELSE <<"- Referenced by ", relationships[k].source_table, " via ",
                                  relationships[k].from_column, " -> ", relationships[k].to_column>>])
            \o (IF sample_rows = <<>> THEN <<>>
                ELSE <<<<"#### Sample Data (first few rows):">>>>
                     \o [r \in DOMAIN sample_rows |->
                           <<"Row ", r, ": ",
                             SelectSeq(sample_rows[r], LAMBDA kv : kv[1] \in Range(primary_keys))>>])

\* dict.get(key) on a dict kept as (key, value) pairs: the values found, at
\* most one.
Lookup(pairs, key) == LET hits == SelectSeq(pairs, LAMBDA kv : kv[1] = key) IN [k \in DOMAIN hits |-> hits[k][2]]

\* How many sample values get_column_values collects at most.
SampleValuesLimit == 10

\* The loop over the sampled rows of get_column_values.
RECURSIVE SampleValues(_, _, _, _)
SampleValues(rows, column_name, k, sample_values) ==
    IF k > Len(rows) THEN sample_values
    ELSE LET found == Lookup(rows[k], column_name) IN
         IF found # <<>> /\ found[1] \notin Range(sample_values) /\ found[1] # PyStr("NULL")
         THEN IF Len(sample_values) + 1 >= SampleValuesLimit THEN Append(sample_values, found[1])
              ELSE SampleValues(rows, column_name, k + 1, Append(sample_values, found[1]))
         ELSE SampleValues(rows, column_name, k + 1, sample_values)

\* Variant of get_column_values without the check of the column list.
ColumnValuesUnchecked(G, is_initialized, table_name, column_name) ==
    IF ~is_initialized THEN NotInitializedError
    ELSE IF ~HasNode(G, table_name) THEN TableNotFoundError(table_name)
    ELSE LET node_data == G.attr[table_name] IN
         IF "sample_data" \in node_data.keys
         THEN <<"dict",
                [column |-> column_name,
                 sample_values |-> SampleValues(node_data.sample_data.rows, column_name, 1, <<>>),
                 statistics |-> Lookup(node_data.sample_data.stats, column_name)]>>
         ELSE NoSampleDataError(column_name)

\* get_column_values(table_name, column_name); statistics is the column's
\* entry, or the empty dict (an empty sequence here) when it has none.
get_column_values(G, is_initialized, table_name, column_name) ==
    IF ~is_initialized THEN NotInitializedError
    ELSE IF ~HasNode(G, table_name) THEN TableNotFoundError(table_name)
    ELSE LET node_data == G.attr[table_name]
             columns == [k \in DOMAIN node_data.columns |-> node_data.columns[k].name]
         IN IF column_name \notin Range(columns) THEN ColumnNotFoundError(table_name, column_name)
            ELSE IF "sample_data" \in node_data.keys
            THEN <<"dict",
                   [column |-> column_name,
                    sample_values |-> SampleValues(node_data.sample_data.rows, column_name, 1, <<>>),
                    statistics |-> Lookup(node_data.sample_data.stats, column_name)]>>
            ELSE NoSampleDataError(column_name)

(***************************** nx.shortest_path ****************************)
\* The keyword parameters nx.shortest_path(G, source=None, target=None,
\* weight=None, method="dijkstra") accepts.
ShortestPathKeywords == {"G", "source", "target", "weight", "method"}

\* The directed paths from source to target, as node sequences.
DirectedPaths(G, source, target) ==
    {p \in SeqsUpTo(Range(G.node), Len(G.node)) :
        /\ Len(p) >= 1 /\ p[1] = source /\ p[Len(p)] = target
        /\ \A i \in 1..(Len(p) - 1) : has_edge(G, p[i], p[i + 1])
        /\ \A i, j \in DOMAIN p : i # j => p[i] # p[j]}

\* Variant of nx_shortest_path that takes any keyword and ignores it.
ShortestPathAnyKeyword(G, source, target, kw) ==
    LET paths == DirectedPaths(G, source, target) IN
    IF paths = {} THEN [exc |-> "NetworkXNoPath", path |-> <<>>]
    ELSE [exc |-> "", path |-> CHOOSE p \in paths : \A q \in paths : Len(p) <= Len(q)]

\* nx.shortest_path(G, source, target, **kw): a call passing a keyword the
\* function does not have raises TypeError before any search; otherwise the
\* result is a shortest directed path, or NetworkXNoPath.
nx_shortest_path(G, source, target, kw) ==
    IF ~(kw \subseteq ShortestPathKeywords) THEN [exc |-> "TypeError", path |-> <<>>]
    ELSE LET paths == DirectedPaths(G, source, target) IN
         IF paths = {} THEN [exc |-> "NetworkXNoPath", path |-> <<>>]
         ELSE [exc |-> "", path |-> CHOOSE p \in paths : \A q \in paths : Len(p) <= Len(q)]

(***************************** find_join_path ******************************)
JoinStep(G, t1, t2) ==
    [from_table |-> t1, to_table |-> t2,
     from_column |-> G.edge[<<t1, t2>>].from_column, to_column |-> G.edge[<<t1, t2>>].to_column]
\* The join steps along a node path.
PathJoins(G, path) == [i \in 1..(Len(path) - 1) |-> JoinStep(G, path[i], path[i + 1])]
\* joins.reverse() followed by the swap of from/to in every step.
ReverseJoins(joins) ==
    LET r == Reverse(joins) IN
    [i \in DOMAIN r |-> [from_table |-> r[i].to_table, to_table |-> r[i].from_table,
                         from_column |-> r[i].to_column, to_column |-> r[i].from_column]]

\* The default of max_depth.
DefaultMaxDepth == 3

\* Variant of DirectJoin that looks for the edge from_table -> to_table only.
DirectJoinForwardOnly(G, from_table, to_table) ==
    IF has_edge(G, from_table, to_table) THEN <<JoinStep(G, from_table, to_table)>> ELSE <<>>

\* Variant of DirectJoin that presents a reverse edge in the requested
\* direction, tables and columns swapped.
DirectJoinRequestedOrder(G, from_table, to_table) ==
    IF has_edge(G, from_table, to_table) THEN <<JoinStep(G, from_table, to_table)>>
    ELSE IF has_edge(G, to_table, from_table)
    THEN <<[from_table |-> from_table, to_table |-> to_table,
            from_column |-> G.edge[<<to_table, from_table>>].to_column,
            to_column |-> G.edge[<<to_table, from_table>>].from_column]>>
    ELSE <<>>

\* The direct-edge checks: direct_joins when one of them returns, the empty
\* list when neither edge exists.  The reverse edge is returned as stored.
DirectJoin(G, from_table, to_table) ==
    IF has_edge(G, from_table, to_table) THEN <<JoinStep(G, from_table, to_table)>>
    ELSE IF has_edge(G, to_table, from_table) THEN <<JoinStep(G, to_table, from_table)>>
    ELSE <<>>

\* find_join_path(from_table, to_table, max_depth).  Both shortest_path
\* calls pass cutoff=max_depth.  An exception other than NetworkXNoPath
\* leaves the inner try blocks and is caught by the outer
\* "except Exception", which returns None.
find_join_path(G, is_initialized, from_table, to_table, max_depth) ==
    IF ~is_initialized THEN PyNone
    ELSE IF ~HasNode(G, from_table) \/ ~HasNode(G, to_table) THEN PyNone
    ELSE IF DirectJoin(G, from_table, to_table) # <<>> THEN <<"list", DirectJoin(G, from_table, to_table)>>
    ELSE LET forward == nx_shortest_path(G, from_table, to_table, {"cutoff"}) IN
         IF forward.exc = "" THEN <<"list", PathJoins(G, forward.path)>>
         ELSE IF forward.exc = "NetworkXNoPath"
         THEN LET backward == nx_shortest_path(G, to_table, from_table, {"cutoff"}) IN
              IF backward.exc = "" THEN <<"list", ReverseJoins(PathJoins(G, backward.path))>>
              ELSE PyNone
         ELSE PyNone

(***************************** get_query_suggestion ************************)
\* "if path:" - neither None nor an empty list.
Truthy(path) == path[1] = "list" /\ path[2] # <<>>
\* list.remove(x): the first occurrence goes.
RemoveFirst(s, x) == LET i == IndexOf(s, x) IN SubSeq(s, 1, i - 1) \o SubSeq(s, i + 1, Len(s))
\* The names of a node's columns.
ColumnNames(G, table) == [k \in DOMAIN G.attr[table].columns |-> G.attr[table].columns[k].name]
\* A dict built by assigning table_columns[table] for every table of the
\* list in order: one entry per distinct table, at its first position.
TableColumnsDict(G, tables) ==
    LET firsts == SelectSeq([k \in DOMAIN tables |-> <<k, tables[k]>>],
                            LAMBDA kt : IndexOf(tables, kt[2]) = kt[1])
    IN [k \in DOMAIN firsts |-> <<firsts[k][2], ColumnNames(G, firsts[k][2])>>]

\* The first loop of a greedy pass: the candidate with the strictly
\* shortest join path from current_table, the earliest among equals; an
\* empty sequence when no candidate has a path.
RECURSIVE BestCandidate(_, _, _, _, _, _)
BestCandidate(G, is_initialized, current_table, remaining_tables, k, best) ==
    IF k > Len(remaining_tables) THEN best
    ELSE LET candidate == remaining_tables[k]
             path == find_join_path(G, is_initialized, current_table, candidate, DefaultMaxDepth)
         IN BestCandidate(G, is_initialized, current_table, remaining_tables, k + 1,
                          IF Truthy(path) /\ (best = <<>> \/ Len(path[2]) < Len(best[1].path[2]))
                          THEN <<[candidate |-> candidate, path |-> path]>> ELSE best)

\* Variant of AnyJoined for a greedy pass without the fallback loops.
NoneJoined(G, is_initialized, join_order, remaining_tables, j, k) == <<>>

\* The fallback loops of a greedy pass: the first (joined_table, candidate)
\* pair, joined tables outermost, that has a join path.
RECURSIVE AnyJoined(_, _, _, _, _, _)
AnyJoined(G, is_initialized, join_order, remaining_tables, j, k) ==
    IF j > Len(join_order) THEN <<>>
    ELSE IF k > Len(remaining_tables) THEN AnyJoined(G, is_initialized, join_order, remaining_tables, j + 1, 1)
    ELSE LET path == find_join_path(G, is_initialized, join_order[j], remaining_tables[k], DefaultMaxDepth) IN
         IF Truthy(path) THEN <<[candidate |-> remaining_tables[k], path |-> path]>>
         ELSE AnyJoined(G, is_initialized, join_order, remaining_tables, j, k + 1)

\* Variant of GreedyJoin whose passes remove the tables from the caller's
\* list itself, so that the list is empty when table_columns is filled.
RECURSIVE GreedyJoinOnCallersList(_, _, _, _, _, _)
GreedyJoinOnCallersList(G, is_initialized, tables, join_order, remaining_tables, joins) ==
    IF remaining_tables = <<>>
    THEN <<"dict", [join_order |-> join_order, joins |-> joins,
                    table_columns |-> TableColumnsDict(G, remaining_tables)]>>
    ELSE LET best == BestCandidate(G, is_initialized, join_order[Len(join_order)], remaining_tables, 1, <<>>)
             pick == IF best # <<>> THEN best
                     ELSE AnyJoined(G, is_initialized, join_order, remaining_tables, 1, 1)
         IN IF pick = <<>> THEN PyNone
            ELSE GreedyJoinOnCallersList(G, is_initialized, tables, Append(join_order, pick[1].candidate),
                                         RemoveFirst(remaining_tables, pick[1].candidate),
                                         joins \o pick[1].path[2])

\* The while loop: None when a pass finds nothing, else the plan.
RECURSIVE GreedyJoin(_, _, _, _, _, _)
GreedyJoin(G, is_initialized, tables, join_order, remaining_tables, joins) ==
    IF remaining_tables = <<>>
    THEN <<"dict", [join_order |-> join_order, joins |-> joins, table_columns |-> TableColumnsDict(G, tables)]>>
    ELSE LET best == BestCandidate(G, is_initialized, join_order[Len(join_order)], remaining_tables, 1, <<>>)
             pick == IF best # <<>> THEN best
                     ELSE AnyJoined(G, is_initialized, join_order, remaining_tables, 1, 1)
         IN IF pick = <<>> THEN PyNone
            ELSE GreedyJoin(G, is_initialized, tables, Append(join_order, pick[1].candidate),
                            RemoveFirst(remaining_tables, pick[1].candidate), joins \o pick[1].path[2])

\* get_query_suggestion(tables).  For two tables without a join path the
\* code falls through to the greedy loop.
get_query_suggestion(G, is_initialized, tables) ==
    IF ~is_initialized \/ Len(tables) < 2 THEN PyNone
    ELSE IF \E k \in DOMAIN tables : ~HasNode(G, tables[k]) THEN PyNone
    ELSE LET path == find_join_path(G, is_initialized, tables[1], tables[2], DefaultMaxDepth) IN
         IF Len(tables) = 2 /\ Truthy(path)
         THEN <<"dict", [join_order |-> IF path[2][1].from_table = tables[1]
                                        THEN <<tables[1], tables[2]>> ELSE <<tables[2], tables[1]>>,
                         joins |-> path[2],
                         table_columns |-> TableColumnsDict(G, tables)]>>
         ELSE GreedyJoin(G, is_initialized, tables, <<tables[1]>>, Tail(tables), <<>>)

(***************************** suggest_sql_query ***************************)
\* Variant of SelectColumns that lists the columns of one table only.
SelectOneTable(table_columns, tables, k) ==
    IF k > Len(tables) THEN <<>>
    ELSE LET found == Lookup(table_columns, tables[k])
             table_cols == IF found = <<>> THEN <<>> ELSE found[1]
         IN [c \in DOMAIN table_cols |-> tables[k] \o "." \o table_cols[c]]

\* The SELECT list for columns=None: table.column for the columns of every
\* table of the request, in request order.
RECURSIVE SelectColumns(_, _, _)
SelectColumns(table_columns, tables, k) ==
    IF k > Len(tables) THEN <<>>
    ELSE LET found == Lookup(table_columns, tables[k])
             table_cols == IF found = <<>> THEN <<>> ELSE found[1]
         IN [c \in DOMAIN table_cols |-> tables[k] \o "." \o table_cols[c]]
            \o SelectColumns(table_columns, tables, k + 1)

\* suggest_sql_query(tables, columns): None, or the query text, kept as
\* its SELECT list, its FROM table and its JOIN clauses in order (a clause
\* is written only for a step whose to_table is in tables).  columns is a
\* list of column texts; the empty list stands for None as well.
suggest_sql_query(G, is_initialized, tables, columns) ==
    IF tables = <<>> THEN PyNone
    ELSE LET suggestion == get_query_suggestion(G, is_initialized, tables) IN
         IF suggestion = PyNone THEN PyNone
         ELSE LET joins == SelectSeq(suggestion[2].joins, LAMBDA join : join.to_table \in Range(tables)) IN
              <<"query",
                [select |-> IF columns = <<>> THEN SelectColumns(suggestion[2].table_columns, tables, 1)
                            ELSE columns,
                 from |-> suggestion[2].join_order[1],
                 joins |-> [k \in DOMAIN joins |->
                              [join |-> joins[k].to_table,
                               on |-> <<joins[k].from_table \o "." \o joins[k].from_column,
                                        joins[k].to_table \o "." \o joins[k].to_column>>]]]>>

(***************************** state ***************************************)
\* The DBKnowledgeGraph instances of the model.
Instances == {1, 2}

VARIABLES
    database,     \* the database behind each db path
    cache_file,   \* the file a_graph.json
    kg,           \* the instances: fields, and where initialize() stands
    init_call,    \* per instance, what its latest initialize() call did
    last,         \* the latest query call and its result, until taken
    app           \* the chat application: whether it runs, and its global kg

vars == <<database, cache_file, kg, init_call, last, app>>

\* __init__(db_path).  pc, tables, k, exc and db_open are the position and
\* the locals of a running initialize(): the table list, the loop index, the
\* exception travelling through "finally", and db_manager.db is not None.
NewInstance(db_path) ==
    [db_path |-> db_path, graph |-> DiGraph, is_initialized |-> FALSE,
     pc |-> "idle", tables |-> <<>>, k |-> 0, exc |-> "", db_open |-> FALSE]

\* No initialize() call yet.  state: none, running, returned, raised; path:
\* none, load, build; saw: the cache file the call found; queried_db: it
\* opened a database connection; persisted: its snapshot was written;
\* completed: some call of the instance has finished its reload or build.
NoInitCall == [state |-> "none", path |-> "none", exc |-> "", saw |-> AbsentFile,
               queried_db |-> FALSE, persisted |-> FALSE, completed |-> FALSE]
\* A call entering on the cache file as it is now.
EnterCall(i, path) ==
    [state |-> "running", path |-> path, exc |-> "", saw |-> cache_file,
     queried_db |-> FALSE, persisted |-> FALSE, completed |-> init_call[i].completed]

NoCall == [op |-> "", instance |-> 0, args |-> <<>>, result |-> PyNone]

\* The instances are used as a library: no chat application runs.  kg is the
\* module-level name kg of the application, <<>> for None.
NoApp == [serving |-> FALSE, kg |-> <<>>]
\* on_chat_start up to its first suspension: it binds the global kg to the
\* new instance i and enters initialize() on it.
on_chat_start(a, i) == IF a.serving THEN [a EXCEPT !.kg = <<i>>] ELSE a

(***************************** cache files found at start ******************)
\* A snapshot an earlier run left for db_path over a database d.
RECURSIVE BuildAll(_, _, _)
BuildAll(G, d, k) == IF k > Len(d.tables) THEN G ELSE BuildAll(BuildTable(G, d, d.tables[k]), d, k + 1)
OneTable == Database(1, [t \in Range(TableList) |-> <<>>], FALSE, {})
TwoTables == Database(2, [t \in Range(TableList) |-> IF t = "B" THEN <<ForeignKey(1, "A")>> ELSE <<>>], FALSE, {})
OldSnapshot(db_path) == SnapshotOf(BuildAll(DiGraph, TwoTables, 1), db_path)
\* The same in the format that had no sample data.
StripSampleData(doc) ==
    [doc EXCEPT !.nodes = [k \in DOMAIN @ |->
        <<@[k][1], [@[k][2] EXCEPT !.attrs.keys = @ \ {"sample_data"},
                                   !.attrs.sample_data = NoAttrs.sample_data]>>]]
NumberEntry == [shape |-> "number", attrs |-> NoAttrs]

InitialCacheFiles ==
    {AbsentFile, BrokenFile}
    \cup {JsonFile(OldSnapshot(p)) : p \in DbPaths}
    \cup {JsonFile(StripSampleData(OldSnapshot("a.db"))),
          JsonFile([OldSnapshot("a.db") EXCEPT !.top = "array"]),
          JsonFile([OldSnapshot("a.db") EXCEPT !.nodes_shape = "array"]),
          JsonFile([OldSnapshot("a.db") EXCEPT !.nodes = <<<<"A", NumberEntry>>>> \o @]),
          JsonFile([OldSnapshot("a.db") EXCEPT !.nodes = @ \o <<<<"C", NumberEntry>>>>]),
          JsonFile([OldSnapshot("a.db") EXCEPT !.metadata_shape = "string"]),
          JsonFile([OldSnapshot("a.db") EXCEPT !.keys = @ \ {"metadata"}, !.db_path = PyNone]),
          JsonFile([OldSnapshot("a.db") EXCEPT !.keys = @ \ {"edges"}, !.edges = <<>>]),
          JsonFile([OldSnapshot("a.db") EXCEPT !.keys = @ \ {"nodes"}, !.nodes = <<>>])}

\* The databases tried against every cache file: at most two tables and one
\* foreign key, the BLOB table, the tables that cannot be listed, described
\* or sampled.
SmallDatabases == {d \in Databases : Len(d.tables) <= 2 /\ NumFks(d) <= 1}

(***************************** initialize() ********************************)
(* initialize() runs without suspension when it reloads; when it builds it *)
(* suspends at the awaits of _build_from_db, and other callers run there.  *)
(* One initialize() call runs on an instance at a time.                    *)
Raise(i, exc) == [init_call EXCEPT ![i].state = "raised", ![i].exc = exc]

\* The cache file exists and is valid, and the reload succeeds.
InitializeReload(i) ==
    /\ last = NoCall /\ kg[i].pc = "idle"
    /\ path_exists(cache_file) /\ is_cache_valid(cache_file, kg[i].db_path) = "True"
    /\ LET loaded == load_from_cache(kg[i].graph, cache_file) IN
       /\ loaded.exc = ""
       /\ kg' = [kg EXCEPT ![i].graph = loaded.graph, ![i].is_initialized = TRUE]
       /\ init_call' = [init_call EXCEPT ![i] = [EnterCall(i, "load") EXCEPT !.state = "returned", !.completed = TRUE]]
    /\ app' = on_chat_start(app, i)
    /\ UNCHANGED <<database, cache_file, last>>

\* The cache file exists and is valid, and _load_from_cache raises.
InitializeReloadFails(i) ==
    /\ last = NoCall /\ kg[i].pc = "idle"
    /\ path_exists(cache_file) /\ is_cache_valid(cache_file, kg[i].db_path) = "True"
    /\ LET loaded == load_from_cache(kg[i].graph, cache_file) IN
       /\ loaded.exc # ""
       /\ kg' = [kg EXCEPT ![i].graph = loaded.graph]
       /\ init_call' = [init_call EXCEPT ![i] = [EnterCall(i, "load") EXCEPT !.state = "raised", !.exc = loaded.exc]]
    /\ app' = on_chat_start(app, i)
    /\ UNCHANGED <<database, cache_file, last>>

\* _is_cache_valid raises an exception it does not catch.
InitializeValidityRaises(i) ==
    /\ last = NoCall /\ kg[i].pc = "idle"
    /\ path_exists(cache_file)
    /\ is_cache_valid(cache_file, kg[i].db_path) \notin {"True", "False"}
    /\ init_call' = [init_call EXCEPT ![i] = [EnterCall(i, "none") EXCEPT
                        !.state = "raised", !.exc = is_cache_valid(cache_file, kg[i].db_path)]]
    /\ app' = on_chat_start(app, i)
    /\ UNCHANGED <<database, cache_file, kg, last>>

\* No cache file, or an invalid one: _build_from_db starts and awaits the
\* connection.
InitializeBuild(i) ==
    /\ last = NoCall /\ kg[i].pc = "idle"
    /\ ~path_exists(cache_file) \/ is_cache_valid(cache_file, kg[i].db_path) = "False"
    /\ kg' = [kg EXCEPT ![i].pc = "connect", ![i].tables = <<>>, ![i].k = 0, ![i].exc = ""]
    /\ init_call' = [init_call EXCEPT ![i] = EnterCall(i, "build")]
    /\ app' = on_chat_start(app, i)
    /\ UNCHANGED <<database, cache_file, last>>

\* db_manager.connect() returns the connection.
Connect(i) ==
    /\ last = NoCall /\ kg[i].pc = "connect"
    /\ kg' = [kg EXCEPT ![i].pc = "list", ![i].db_open = TRUE]
    /\ init_call' = [init_call EXCEPT ![i].queried_db = TRUE]
    /\ UNCHANGED <<database, cache_file, last, app>>

\* Variant of ConnectFails in which the failed call leaves the instance
\* uninitialized.
ConnectFailsClearsFlag(i) ==
    /\ last = NoCall /\ kg[i].pc = "connect"
    /\ kg' = [kg EXCEPT ![i].pc = "idle", ![i].is_initialized = FALSE]
    /\ init_call' = Raise(i, "OperationalError")
    /\ UNCHANGED <<database, cache_file, last, app>>

\* aiosqlite.connect raises (before the try block).
ConnectFails(i) ==
    /\ last = NoCall /\ kg[i].pc = "connect"
    /\ kg' = [kg EXCEPT ![i].pc = "idle"]
    /\ init_call' = Raise(i, "OperationalError")
    /\ UNCHANGED <<database, cache_file, last, app>>

\* tables = json.loads(await list_tables_names(db))
ListTables(i) ==
    /\ last = NoCall /\ kg[i].pc = "list"
    /\ ~list_tables_names(database[kg[i].db_path]).error
    /\ LET tables == list_tables_names(database[kg[i].db_path]).tables IN
       kg' = [kg EXCEPT ![i].tables = tables, ![i].k = 1,
                        ![i].pc = IF tables = <<>> THEN "close" ELSE "tables"]
    /\ UNCHANGED <<database, cache_file, init_call, last, app>>

\* list_tables_names returned "Error: ..." and json.loads raises.
ListFails(i) ==
    /\ last = NoCall /\ kg[i].pc = "list"
    /\ list_tables_names(database[kg[i].db_path]).error
    /\ kg' = [kg EXCEPT ![i].pc = "close", ![i].exc = "JSONDecodeError"]
    /\ UNCHANGED <<database, cache_file, init_call, last, app>>

\* One pass of the table loop.
ProcessTable(i) ==
    /\ last = NoCall /\ kg[i].pc = "tables"
    /\ LET table_name == kg[i].tables[kg[i].k] IN
       /\ ~describe_table(database[kg[i].db_path], table_name).error
       /\ kg' = [kg EXCEPT ![i].graph = BuildTable(@, database[kg[i].db_path], table_name),
                           ![i].k = @ + 1,
                           ![i].pc = IF kg[i].k = Len(kg[i].tables) THEN "close" ELSE "tables"]
    /\ UNCHANGED <<database, cache_file, init_call, last, app>>

\* describe_table returned "Error: ..." and json.loads raises.
DescribeFails(i) ==
    /\ last = NoCall /\ kg[i].pc = "tables"
    /\ describe_table(database[kg[i].db_path], kg[i].tables[kg[i].k]).error
    /\ kg' = [kg EXCEPT ![i].pc = "close", ![i].exc = "JSONDecodeError"]
    /\ UNCHANGED <<database, cache_file, init_call, last, app>>

\* Variant of BuildRaises for a build without the finally clause.
BuildRaisesUnclosed(i) ==
    /\ last = NoCall /\ kg[i].pc = "close" /\ kg[i].exc # ""
    /\ kg' = [kg EXCEPT ![i].pc = "idle", ![i].exc = ""]
    /\ init_call' = Raise(i, kg[i].exc)
    /\ UNCHANGED <<database, cache_file, last, app>>

\* finally: db_manager.close(), and the exception leaves initialize().
BuildRaises(i) ==
    /\ last = NoCall /\ kg[i].pc = "close" /\ kg[i].exc # ""
    /\ kg' = [kg EXCEPT ![i].pc = "idle", ![i].db_open = FALSE, ![i].exc = ""]
    /\ init_call' = Raise(i, kg[i].exc)
    /\ UNCHANGED <<database, cache_file, last, app>>

\* finally: db_manager.close(); then _save_to_cache() and is_initialized.
SaveOutcomes == {"ok", "open", "write"}
BuildFinish(i) ==
    /\ last = NoCall /\ kg[i].pc = "close" /\ kg[i].exc = ""
    /\ \E outcome \in SaveOutcomes :
         /\ cache_file' = save_to_cache(kg[i].graph, kg[i].db_path, cache_file, outcome)
         /\ init_call' = [init_call EXCEPT ![i].state = "returned", ![i].completed = TRUE,
                                            ![i].persisted = (outcome = "ok")]
    /\ kg' = [kg EXCEPT ![i].pc = "idle", ![i].db_open = FALSE, ![i].is_initialized = TRUE]
    /\ UNCHANGED <<database, last, app>>

\* The test harness removes the cache file to force a rebuild.
RemoveCacheFile ==
    /\ last = NoCall /\ path_exists(cache_file)
    /\ cache_file' = AbsentFile
    /\ UNCHANGED <<database, kg, init_call, last, app>>

(***************************** query calls *********************************)
\* What callers pass: any name for a table, a column that every table has,
\* one that some have and one that none has, table lists of up to
\* MaxRequest names, and a max_depth.
MaxRequest == 3
QueryColumns == {"id", "fk1", "zz"}
\* The max_depth values a caller passes: none, one hop, the default.
MaxDepths == {0, 1, DefaultMaxDepth}
Requests == SeqsUpTo(Names, MaxRequest)

\* A query runs without suspension; its result is held in last until the
\* caller has taken it.
Called(op, i, args, result) == last' = [op |-> op, instance |-> i, args |-> args, result |-> result]

\* Variant of GetTableInfo in which looking a table up enters it into the
\* graph.
GetTableInfoEntersNode(i) ==
    /\ last = NoCall
    /\ \E table_name \in Names :
         /\ Called("get_table_info", i, <<table_name>>,
                   get_table_info(kg[i].graph, kg[i].is_initialized, table_name))
         /\ kg' = [kg EXCEPT ![i].graph = add_node(@, table_name, NoAttrs)]
    /\ UNCHANGED <<database, cache_file, init_call, app>>

GetTableInfo(i) ==
    /\ last = NoCall
    /\ \E table_name \in Names :
         Called("get_table_info", i, <<table_name>>,
                get_table_info(kg[i].graph, kg[i].is_initialized, table_name))
    /\ UNCHANGED <<database, cache_file, kg, init_call, app>>

GetColumnValues(i) ==
    /\ last = NoCall
    /\ \E table_name \in Names, column_name \in QueryColumns :
         Called("get_column_values", i, <<table_name, column_name>>,
                get_column_values(kg[i].graph, kg[i].is_initialized, table_name, column_name))
    /\ UNCHANGED <<database, cache_file, kg, init_call, app>>

FindJoinPath(i) ==
    /\ last = NoCall
    /\ \E from_table \in Names, to_table \in Names, max_depth \in MaxDepths :
         Called("find_join_path", i, <<from_table, to_table, max_depth>>,
                find_join_path(kg[i].graph, kg[i].is_initialized, from_table, to_table, max_depth))
    /\ UNCHANGED <<database, cache_file, kg, init_call, app>>

GetQuerySuggestion(i) ==
    /\ last = NoCall
    /\ \E tables \in Requests :
         Called("get_query_suggestion", i, <<tables>>,
                get_query_suggestion(kg[i].graph, kg[i].is_initialized, tables))
    /\ UNCHANGED <<database, cache_file, kg, init_call, app>>

SuggestSqlQuery(i) ==
    /\ last = NoCall
    /\ \E tables \in Requests :
         Called("suggest_sql_query", i, <<tables>>,
                suggest_sql_query(kg[i].graph, kg[i].is_initialized, tables, <<>>))
    /\ UNCHANGED <<database, cache_file, kg, init_call, app>>

\* The agent's get_table_info tool, called with the instance.
ToolGetTableInfo(i) ==
    /\ last = NoCall
    /\ \E table_name \in Names :
         Called("tool_get_table_info", i, <<table_name>>,
                tool_get_table_info(kg[i].graph, kg[i].is_initialized, table_name))
    /\ UNCHANGED <<database, cache_file, kg, init_call, app>>

\* The message handler main: it reads the global kg when it builds the
\* dependencies of the agent run.
main ==
    /\ last = NoCall
    /\ Called("main", IF app.kg = <<>> THEN 0 ELSE app.kg[1], <<>>,
              <<"Dependencies", [kg |-> app.kg]>>)
    /\ UNCHANGED <<database, cache_file, kg, init_call, app>>

\* The caller takes the result.
TakeResult ==
    /\ last # NoCall
    /\ last' = NoCall
    /\ UNCHANGED <<database, cache_file, kg, init_call, app>>

(***************************** specifications ******************************)
Lifecycle(i) ==
    \/ InitializeReload(i)
    \/ InitializeReloadFails(i)
    \/ InitializeValidityRaises(i)
    \/ InitializeBuild(i)
    \/ Connect(i)
    \/ ConnectFails(i)
    \/ ListTables(i)
    \/ ListFails(i)
    \/ ProcessTable(i)
    \/ DescribeFails(i)
    \/ BuildRaises(i)
    \/ BuildFinish(i)

Query(i) ==
    \/ GetTableInfo(i)
    \/ GetColumnValues(i)
    \/ FindJoinPath(i)
    \/ GetQuerySuggestion(i)
    \/ SuggestSqlQuery(i)

\* Two instances, the first on a.db and the second on either path, over a
\* small database and any cache file found at start.
Init ==
    /\ \E d \in SmallDatabases :
         database = [p \in DbPaths |-> IF p = "a.db" THEN d ELSE OneTable]
    /\ cache_file \in InitialCacheFiles
    /\ \E p \in DbPaths : kg = [i \in Instances |-> NewInstance(IF i = 1 THEN "a.db" ELSE p)]
    /\ init_call = [i \in Instances |-> NoInitCall]
    /\ last = NoCall
    /\ app = NoApp

Next ==
    \/ \E i \in Instances : Lifecycle(i)
    \/ RemoveCacheFile

Spec == Init /\ [][Next]_vars

\* Two instances on a.db over any database and no cache file at start, with
\* a database and a file system that do not fail.
InitRoundTrip ==
    /\ \E d \in PlainDatabases \cup {BlobDatabase} :
         database = [p \in DbPaths |-> IF p = "a.db" THEN d ELSE OneTable]
    /\ cache_file = AbsentFile
    /\ kg = [i \in Instances |-> NewInstance("a.db")]
    /\ init_call = [i \in Instances |-> NoInitCall]
    /\ last = NoCall
    /\ app = NoApp

NextRoundTrip ==
    \E i \in Instances :
        \/ InitializeReload(i)
        \/ InitializeBuild(i)
        \/ Connect(i)
        \/ ListTables(i)
        \/ ProcessTable(i)
        \/ BuildFinish(i)

SpecRoundTrip == InitRoundTrip /\ [][NextRoundTrip]_vars

\* One instance on a.db over a small database, queried at every point of
\* its life.
InitPlanner ==
    /\ \E d \in SmallDatabases :
         database = [p \in DbPaths |-> IF p = "a.db" THEN d ELSE OneTable]
    /\ cache_file = AbsentFile
    /\ kg = [i \in Instances |-> NewInstance("a.db")]
    /\ init_call = [i \in Instances |-> NoInitCall]
    /\ last = NoCall
    /\ app = NoApp

NextPlanner ==
    \/ InitializeReload(1)
    \/ InitializeBuild(1)
    \/ Connect(1)
    \/ ConnectFails(1)
    \/ ListTables(1)
    \/ ListFails(1)
    \/ ProcessTable(1)
    \/ DescribeFails(1)
    \/ BuildRaises(1)
    \/ BuildFinish(1)
    \/ Query(1)
    \/ TakeResult

SpecPlanner == InitPlanner /\ [][NextPlanner]_vars

\* One instance on a.db over any database, built without failures and
\* queried between its initialize() calls once it is initialized.
InitJoin ==
    /\ \E d \in PlainDatabases :
         database = [p \in DbPaths |-> IF p = "a.db" THEN d ELSE OneTable]
    /\ cache_file = AbsentFile
    /\ kg = [i \in Instances |-> NewInstance("a.db")]
    /\ init_call = [i \in Instances |-> NoInitCall]
    /\ last = NoCall
    /\ app = NoApp

NextJoin ==
    \/ InitializeReload(1)
    \/ InitializeBuild(1)
    \/ Connect(1)
    \/ ListTables(1)
    \/ ProcessTable(1)
    \/ BuildFinish(1)
    \/ kg[1].is_initialized /\ kg[1].pc = "idle" /\ Query(1)
    \/ kg[1].is_initialized /\ kg[1].pc = "idle" /\ ToolGetTableInfo(1)
    \/ TakeResult

SpecJoin == InitJoin /\ [][NextJoin]_vars

\* The sampler on a table of many rows: instance 1 builds, persists or
\* fails to, and initializes again.
InitSampler ==
    /\ \E d \in WideDatabases :
         database = [p \in DbPaths |-> IF p = "a.db" THEN d ELSE OneTable]
    /\ cache_file = AbsentFile
    /\ kg = [i \in Instances |-> NewInstance("a.db")]
    /\ init_call = [i \in Instances |-> NoInitCall]
    /\ last = NoCall
    /\ app = NoApp
NextSampler ==
    \/ InitializeReload(1)
    \/ InitializeBuild(1)
    \/ Connect(1)
    \/ ListTables(1)
    \/ ProcessTable(1)
    \/ BuildFinish(1)
SpecSampler == InitSampler /\ [][NextSampler]_vars

\* The chat application with two sessions: each session's on_chat_start
\* makes its own instance on the one database path and initializes it once;
\* message handlers run once some session's on_chat_start has completed.
InitApp ==
    /\ \E d \in SmallDatabases :
         database = [p \in DbPaths |-> IF p = "a.db" THEN d ELSE OneTable]
    /\ cache_file \in InitialCacheFiles
    /\ kg = [i \in Instances |-> NewInstance("a.db")]
    /\ init_call = [i \in Instances |-> NoInitCall]
    /\ last = NoCall
    /\ app = [serving |-> TRUE, kg |-> <<>>]

NextApp ==
    \/ \E s \in Instances :
         \/ init_call[s].state = "none" /\ InitializeReload(s)
         \/ init_call[s].state = "none" /\ InitializeReloadFails(s)
         \/ init_call[s].state = "none" /\ InitializeValidityRaises(s)
         \/ init_call[s].state = "none" /\ InitializeBuild(s)
         \/ Connect(s)
         \/ ConnectFails(s)
         \/ ListTables(s)
         \/ ListFails(s)
         \/ ProcessTable(s)
         \/ DescribeFails(s)
         \/ BuildRaises(s)
         \/ BuildFinish(s)
    \/ (\E s \in Instances : init_call[s].state = "returned") /\ main
    \/ TakeResult

SpecApp == InitApp /\ [][NextApp]_vars

(***************************** claims **************************************)
\* C1: is_initialized is false from construction until an initialize() call
\* has finished its reload or build, and once true it is never false again,
\* whatever initialize() calls (also raising ones) and query calls follow.
C1_InitializedOnce ==
    /\ [](\A i \in Instances : kg[i].is_initialized => init_call[i].completed)
    /\ [][\A i \in Instances : kg[i].is_initialized => kg'[i].is_initialized]_vars
\* An initialized instance whose latest initialize() call raised.
C1_Witness ==
    \E i \in Instances : kg[i].is_initialized /\ init_call[i].state = "raised"

\* What the statements about the cache read off a cache file: it holds an
\* object whose sections and node entries have the shape _save_to_cache
\* writes; the db_path its metadata records; some node carries sample data.
WellShaped(file) ==
    /\ file.exists /\ file.json /\ file.doc.top = "object"
    /\ file.doc.nodes_shape = "object" /\ file.doc.metadata_shape = "object"
    /\ \A k \in DOMAIN file.doc.nodes : file.doc.nodes[k][2].shape = "object"
RecordedPath(file) == IF "metadata" \in file.doc.keys THEN file.doc.db_path ELSE PyNone
HasSampledNode(file) ==
    /\ "nodes" \in file.doc.keys
    /\ \E k \in DOMAIN file.doc.nodes : "sample_data" \in file.doc.nodes[k][2].attrs.keys
\* Every node and edge of G2 that G lacks is a table or a foreign key of d.
FromDatabase(G, G2, d) ==
    /\ \A n \in Range(G2.node) \ Range(G.node) :
         \/ n \in Range(d.tables)
         \/ \E t \in Range(d.tables) : \E k \in DOMAIN d.fks[t] : d.fks[t][k].referenced_table = n
    /\ \A u, v \in Names :
         has_edge(G2, u, v) /\ ~has_edge(G, u, v) =>
            u \in Range(d.tables) /\ \E k \in DOMAIN d.fks[u] : d.fks[u][k].referenced_table = v

\* C2: initialize() reloads only a snapshot whose metadata.db_path equals the
\* instance's db_path and of which some node carries sample data; when the
\* file is absent, or is a snapshot recording another db_path or holding no
\* node with sample data, it takes the build path, and a call on the build
\* path adds to the graph only tables and foreign keys of the database.
C2_ReloadOnlyIfValid ==
    /\ [](\A i \in Instances :
            init_call[i].path = "load" =>
               /\ init_call[i].saw.json
               /\ RecordedPath(init_call[i].saw) = PyStr(kg[i].db_path)
               /\ HasSampledNode(init_call[i].saw))
    /\ [](\A i \in Instances :
            /\ init_call[i].state # "none"
            /\ \/ ~init_call[i].saw.exists
               \/ /\ WellShaped(init_call[i].saw)
                  /\ \/ RecordedPath(init_call[i].saw) # PyStr(kg[i].db_path)
                     \/ ~HasSampledNode(init_call[i].saw)
            => init_call[i].path = "build")
    /\ [][\A i \in Instances :
            init_call'[i].path = "build" /\ kg'[i].graph # kg[i].graph =>
               FromDatabase(kg[i].graph, kg'[i].graph, database[kg[i].db_path])]_vars
\* A call that found a sampled snapshot of the other db_path and has
\* returned from a build.
C2_Witness ==
    \E i \in Instances :
        /\ init_call[i].state = "returned" /\ init_call[i].path = "build"
        /\ WellShaped(init_call[i].saw) /\ HasSampledNode(init_call[i].saw)
        /\ RecordedPath(init_call[i].saw) \in {PyStr(p) : p \in DbPaths \ {kg[i].db_path}}
        /\ kg[i].graph.node # <<>>

\* C3: a snapshot that is missing, does not parse, or parses into a top
\* level, a nodes section or a node entry of unexpected shape is a cache
\* miss: the call takes the build path, and no error of the validity check
\* or of a reload leaves initialize().
C3_CorruptIsCacheMiss ==
    \A i \in Instances :
        /\ init_call[i].state # "none"
        /\ \/ ~init_call[i].saw.exists
           \/ ~init_call[i].saw.json
           \/ init_call[i].saw.doc.top # "object"
           \/ init_call[i].saw.doc.nodes_shape # "object"
           \/ \E k \in DOMAIN init_call[i].saw.doc.nodes : init_call[i].saw.doc.nodes[k][2].shape # "object"
        => init_call[i].path = "build"

\* json.dumps accepts the sample data of every node of G.
AllSerializable(G) ==
    \A n \in Range(G.node) :
        "sample_data" \in G.attr[n].keys => SampleDataSerializable(G.attr[n].sample_data)
\* Instance i built its graph and persisted it, and that is its latest call.
BuiltAndPersisted(i) ==
    init_call[i].path = "build" /\ init_call[i].state = "returned" /\ init_call[i].persisted
\* The latest call of instance j found the snapshot of instance i's graph.
FoundSnapshotOf(i, j) ==
    /\ i # j /\ BuiltAndPersisted(i) /\ kg[j].db_path = kg[i].db_path
    /\ init_call[j].state # "none"
    /\ init_call[j].saw = JsonFile(SnapshotOf(kg[i].graph, kg[i].db_path))

\* C4: when an instance has built and persisted a graph whose sample values
\* all serialize, and another instance has reloaded that snapshot,
\* get_table_info gives the same result on both for every table name,
\* relationships included, in content and order.
C4_RoundTrip ==
    \A i, j \in Instances :
        /\ FoundSnapshotOf(i, j)
        /\ init_call[j].path = "load" /\ init_call[j].state = "returned"
        /\ AllSerializable(kg[i].graph)
        => \A t \in Names :
              get_table_info(kg[j].graph, kg[j].is_initialized, t)
                 = get_table_info(kg[i].graph, kg[i].is_initialized, t)

\* The call reloaded and returned without opening the database.
Reloaded(j) ==
    init_call[j].path = "load" /\ init_call[j].state = "returned" /\ ~init_call[j].queried_db

\* C5 as stated: whatever the schema, an initialize() that finds the
\* snapshot a build on the same db_path persisted reloads it and does not
\* query the database.
C5_ReloadAnySchema ==
    \A i, j \in Instances : FoundSnapshotOf(i, j) => Reloaded(j)
\* C5: for every schema of at least one table, an initialize() that finds
\* the snapshot a build on the same db_path persisted reloads it and does
\* not query the database.
C5_ReloadWithTables ==
    \A i, j \in Instances :
        FoundSnapshotOf(i, j) /\ database[kg[i].db_path].tables # <<>> => Reloaded(j)
\* A second instance has reloaded the snapshot of a database with tables.
C5_Witness ==
    \E i, j \in Instances :
        FoundSnapshotOf(i, j) /\ database[kg[i].db_path].tables # <<>> /\ Reloaded(j)

\* The latest query call, made on an instance that was initialized or not.
Asked(op, initialized) ==
    last.op = op /\ kg[last.instance].is_initialized = initialized
\* What the operation answers on an initialized instance that holds none of
\* the tables asked for.
NotFoundAnswer(op, args) ==
    CASE op = "get_table_info" -> get_table_info(DiGraph, TRUE, args[1])
      [] op = "get_column_values" -> get_column_values(DiGraph, TRUE, args[1], args[2])
      [] op = "find_join_path" -> find_join_path(DiGraph, TRUE, args[1], args[2], args[3])
      [] op = "get_query_suggestion" -> get_query_suggestion(DiGraph, TRUE, args[1])
      [] op = "suggest_sql_query" -> suggest_sql_query(DiGraph, TRUE, args[1], <<>>)

\* C6: a query on an instance that is not initialized, naming tables, gives
\* a result that differs from the one the same call gives on an initialized
\* instance to which the tables are unknown.
C6_NotInitializedSignalled ==
    /\ last # NoCall /\ ~kg[last.instance].is_initialized
    /\ last.op \in {"get_query_suggestion", "suggest_sql_query"} => Len(last.args[1]) >= 2
    => last.result # NotFoundAnswer(last.op, last.args)

\* An error result that reports something not found.
NotFound(r) ==
    /\ IsErrorResult(r) /\ r # NotInitializedError
    /\ \E k \in DOMAIN r[2].error : r[2].error[k] \in {"' not found in graph", "' not found in table '"}

\* C7: on an initialized instance get_table_info of a name that is no node,
\* and get_column_values of a name that is no node or of a column that is
\* not in the node's column list, return a not-found error result; and no
\* query call changes the instances.
C7_UnknownIsNotFound ==
    /\ [](Asked("get_table_info", TRUE) /\ ~HasNode(kg[last.instance].graph, last.args[1])
            => NotFound(last.result))
    /\ [](/\ Asked("get_column_values", TRUE)
          /\ \/ ~HasNode(kg[last.instance].graph, last.args[1])
             \/ last.args[2] \notin Range(ColumnNames(kg[last.instance].graph, last.args[1]))
          => NotFound(last.result))
    /\ [][last' # NoCall => kg' = kg]_vars
\* get_column_values was asked for a column that a table of the graph lacks.
C7_Witness ==
    /\ Asked("get_column_values", TRUE)
    /\ HasNode(kg[last.instance].graph, last.args[1])
    /\ ColumnNames(kg[last.instance].graph, last.args[1]) # <<>>
    /\ last.args[2] \notin Range(ColumnNames(kg[last.instance].graph, last.args[1]))

\* C8: when the graph holds an edge between the two tables, in either
\* direction, find_join_path returns exactly one step, between the two
\* tables and with the edge's column pair; with an edge from_table ->
\* to_table the step is that edge: from_table, to_table, from_column,
\* to_column.
C8_DirectEdgeWins ==
    Asked("find_join_path", TRUE) =>
        LET G == kg[last.instance].graph
            a == last.args[1]
            b == last.args[2]
            r == last.result
        IN /\ has_edge(G, a, b) \/ has_edge(G, b, a) =>
                /\ r[1] = "list" /\ Len(r[2]) = 1
                /\ {r[2][1].from_table, r[2][1].to_table} = {a, b}
                /\ LET e == IF has_edge(G, a, b) THEN G.edge[<<a, b>>] ELSE G.edge[<<b, a>>] IN
                   {r[2][1].from_column, r[2][1].to_column} = {e.from_column, e.to_column}
           /\ has_edge(G, a, b) =>
                r = <<"list", <<[from_table |-> a, to_table |-> b,
                                 from_column |-> G.edge[<<a, b>>].from_column,
                                 to_column |-> G.edge[<<a, b>>].to_column]>>>>
\* find_join_path was asked for two tables joined by an edge and also by a
\* two-hop path.
C8_Witness ==
    /\ Asked("find_join_path", TRUE)
    /\ LET G == kg[last.instance].graph
           a == last.args[1]
           b == last.args[2]
       IN /\ a # b /\ has_edge(G, a, b)
          /\ \E c \in Names \ {a, b} : has_edge(G, a, c) /\ has_edge(G, c, b)

\* find_join_path(a, b) was asked where the only edge between them is b -> a.
ReverseEdgeOnly ==
    /\ Asked("find_join_path", TRUE)
    /\ last.args[1] # last.args[2]
    /\ ~has_edge(kg[last.instance].graph, last.args[1], last.args[2])
    /\ has_edge(kg[last.instance].graph, last.args[2], last.args[1])

\* C9 as stated: the step is presented in the requested direction, tables
\* and columns swapped relative to the stored edge.
C9_ReverseEdgeSwapped ==
    ReverseEdgeOnly =>
        LET e == kg[last.instance].graph.edge[<<last.args[2], last.args[1]>>] IN
        last.result = <<"list", <<[from_table |-> last.args[1], to_table |-> last.args[2],
                                   from_column |-> e.to_column, to_column |-> e.from_column]>>>>
\* C9: when the only edge between A and B is stored as B -> A,
\* find_join_path(A, B) returns one step in the edge's own orientation:
\* from_table = B, to_table = A, from_column and to_column as stored.
C9_ReverseEdgeAsStored ==
    ReverseEdgeOnly =>
        LET e == kg[last.instance].graph.edge[<<last.args[2], last.args[1]>>] IN
        last.result = <<"list", <<[from_table |-> last.args[2], to_table |-> last.args[1],
                                   from_column |-> e.from_column, to_column |-> e.to_column]>>>>
\* Such a call has returned a step.
C9_Witness ==
    ReverseEdgeOnly /\ last.result[1] = "list" /\ Len(last.result[2]) = 1

\* C10: when the two tables have no edge between them, no directed path
\* leads from from_table to to_table and one of at most max_depth edges
\* leads back, find_join_path returns a chain from from_table to to_table
\* in which every step is a stored edge with tables and columns swapped.
C10_ReverseChainSwapped ==
    LET G == kg[last.instance].graph
        a == last.args[1]
        b == last.args[2]
        r == last.result
    IN /\ Asked("find_join_path", TRUE)
       /\ HasNode(G, a) /\ HasNode(G, b)
       /\ ~has_edge(G, a, b) /\ ~has_edge(G, b, a)
       /\ DirectedPaths(G, a, b) = {}
       /\ \E p \in DirectedPaths(G, b, a) : Len(p) - 1 <= DefaultMaxDepth
       => /\ r[1] = "list" /\ Len(r[2]) >= 2
          /\ r[2][1].from_table = a /\ r[2][Len(r[2])].to_table = b
          /\ \A k \in 1..(Len(r[2]) - 1) : r[2][k].to_table = r[2][k + 1].from_table
          /\ \A k \in DOMAIN r[2] :
                /\ has_edge(G, r[2][k].to_table, r[2][k].from_table)
                /\ r[2][k].from_column = G.edge[<<r[2][k].to_table, r[2][k].from_table>>].to_column
                /\ r[2][k].to_column = G.edge[<<r[2][k].to_table, r[2][k].from_table>>].from_column

\* find_join_path(a, b, max_depth) was asked on an initialized instance for
\* two different tables of the graph that no edge joins.
NoDirectEdge ==
    /\ Asked("find_join_path", TRUE)
    /\ last.args[1] # last.args[2]
    /\ HasNode(kg[last.instance].graph, last.args[1])
    /\ HasNode(kg[last.instance].graph, last.args[2])
    /\ ~has_edge(kg[last.instance].graph, last.args[1], last.args[2])
    /\ ~has_edge(kg[last.instance].graph, last.args[2], last.args[1])
\* A directed path of at most depth edges leads from a to b.
PathWithin(G, a, b, depth) == \E p \in DirectedPaths(G, a, b) : Len(p) - 1 <= depth
\* joins is a chain of stored edges, each in its own orientation, from a to b.
NativeChain(G, joins, a, b) ==
    /\ joins # <<>>
    /\ joins[1].from_table = a /\ joins[Len(joins)].to_table = b
    /\ \A k \in 1..(Len(joins) - 1) : joins[k].to_table = joins[k + 1].from_table
    /\ \A k \in DOMAIN joins :
          /\ has_edge(G, joins[k].from_table, joins[k].to_table)
          /\ joins[k].from_column = G.edge[<<joins[k].from_table, joins[k].to_table>>].from_column
          /\ joins[k].to_column = G.edge[<<joins[k].from_table, joins[k].to_table>>].to_column

\* C11: when no edge joins the two tables and a directed path of at most
\* max_depth edges leads from from_table to to_table, find_join_path returns
\* a shortest such path, every step a stored edge in its own orientation
\* (also when a shorter directed path leads back).
C11_ForwardPath ==
    NoDirectEdge /\ PathWithin(kg[last.instance].graph, last.args[1], last.args[2], last.args[3])
    => /\ last.result[1] = "list"
       /\ NativeChain(kg[last.instance].graph, last.result[2], last.args[1], last.args[2])
       /\ \A p \in DirectedPaths(kg[last.instance].graph, last.args[1], last.args[2]) :
             Len(last.result[2]) <= Len(p) - 1

\* C12: for two tables of the graph find_join_path returns None exactly when
\* no edge joins them and no directed path of at most max_depth edges leads
\* from one to the other, in either direction.
C12_NoneIffNoPath ==
    /\ Asked("find_join_path", TRUE)
    /\ last.args[1] # last.args[2]
    /\ HasNode(kg[last.instance].graph, last.args[1])
    /\ HasNode(kg[last.instance].graph, last.args[2])
    => (last.result = PyNone
          <=> /\ NoDirectEdge
              /\ ~PathWithin(kg[last.instance].graph, last.args[1], last.args[2], last.args[3])
              /\ ~PathWithin(kg[last.instance].graph, last.args[2], last.args[1], last.args[3]))

\* C13 as stated: every path find_join_path returns has at most max_depth
\* steps, whatever max_depth is.
C13_AtMostMaxDepth ==
    Asked("find_join_path", TRUE) /\ last.result[1] = "list" => Len(last.result[2]) <= last.args[3]
\* C13: for max_depth of at least 1, every path find_join_path returns has
\* at most max_depth steps, also on graphs with cycles and self-referencing
\* tables.
C13_AtMostPositiveMaxDepth ==
    Asked("find_join_path", TRUE) /\ last.result[1] = "list" /\ last.args[3] >= 1
    => Len(last.result[2]) <= last.args[3]
\* A path was returned for max_depth 1 on a graph that holds a
\* self-referencing table and a cycle of two tables.
C13_Witness ==
    /\ Asked("find_join_path", TRUE) /\ last.result[1] = "list" /\ last.args[3] = 1
    /\ \E u, v \in Names :
          /\ has_edge(kg[last.instance].graph, u, u)
          /\ u # v /\ has_edge(kg[last.instance].graph, u, v) /\ has_edge(kg[last.instance].graph, v, u)

\* find_join_path finds a join path between x and y, asked either way.
Joinable(G, x, y) ==
    \/ Truthy(find_join_path(G, TRUE, x, y, DefaultMaxDepth))
    \/ Truthy(find_join_path(G, TRUE, y, x, DefaultMaxDepth))
\* The positions of the request that chains of pairwise join paths reach
\* from the positions in S.
RECURSIVE Chained(_, _, _)
Chained(G, tables, S) ==
    LET more == {j \in DOMAIN tables : \E i \in S : i # j /\ Joinable(G, tables[i], tables[j])} IN
    IF more \subseteq S THEN S ELSE Chained(G, tables, S \cup more)
\* get_query_suggestion was asked on an initialized instance for three or
\* more tables of the graph.
ManyTables ==
    /\ Asked("get_query_suggestion", TRUE)
    /\ Len(last.args[1]) >= 3
    /\ \A k \in DOMAIN last.args[1] : HasNode(kg[last.instance].graph, last.args[1][k])

\* C14: for three or more requested tables get_query_suggestion returns a
\* plan exactly when chains of pairwise join paths connect all of them,
\* whatever their order in the request; the plan joins every requested
\* table, starting with the first.
C14_PlanIffChained ==
    ManyTables =>
        /\ last.result # PyNone
              <=> Chained(kg[last.instance].graph, last.args[1], {1}) = DOMAIN last.args[1]
        /\ last.result # PyNone =>
              /\ last.result[2].join_order[1] = last.args[1][1]
              /\ Len(last.result[2].join_order) = Len(last.args[1])
              /\ Range(last.result[2].join_order) = Range(last.args[1])
\* A plan for three different tables in which the third table joined has
\* no join path to the second: the search went back to the first.
C14_Witness ==
    /\ ManyTables /\ last.result # PyNone
    /\ Cardinality(Range(last.args[1])) = 3
    /\ ~Joinable(kg[last.instance].graph, last.result[2].join_order[2], last.result[2].join_order[3])

\* C15: for tables A -> B -> C with no edge between A and C,
\* suggest_sql_query([A, C]) returns a query whose JOIN clauses join B, and
\* whose SELECT list holds the columns of A and of C only.
C15_RoutesThrough ==
    LET G == kg[last.instance].graph
        a == last.args[1][1]
        c == last.args[1][2]
    IN /\ Asked("suggest_sql_query", TRUE)
       /\ Len(last.args[1]) = 2 /\ a # c
       /\ ~has_edge(G, a, c) /\ ~has_edge(G, c, a)
       /\ \E b \in Names \ {a, c} : has_edge(G, a, b) /\ has_edge(G, b, c)
       => /\ last.result[1] = "query"
          /\ \E k \in DOMAIN last.result[2].joins :
                /\ last.result[2].joins[k].join \notin {a, c}
                /\ has_edge(G, a, last.result[2].joins[k].join)
                /\ has_edge(G, last.result[2].joins[k].join, c)
          /\ last.result[2].select
                = [k \in DOMAIN ColumnNames(G, a) |-> a \o "." \o ColumnNames(G, a)[k]]
                  \o [k \in DOMAIN ColumnNames(G, c) |-> c \o "." \o ColumnNames(G, c)[k]]

\* table.column for every column the database holds of the tables of the
\* request from position k on, in request order.
RECURSIVE QualifiedColumns(_, _, _)
QualifiedColumns(d, tables, k) ==
    IF k > Len(tables) THEN <<>>
    ELSE (IF tables[k] \in Range(d.tables)
          THEN [c \in DOMAIN TableColumns(d, tables[k]) |-> tables[k] \o "." \o TableColumns(d, tables[k])[c].name]
          ELSE <<>>)
         \o QualifiedColumns(d, tables, k + 1)

\* C16: a query suggest_sql_query returns when called without columns lists
\* table.column for every column of every requested table, in request
\* order, and nothing else; and every JOIN clause joins a requested table.
C16_SelectAndJoins ==
    Asked("suggest_sql_query", TRUE) /\ last.result[1] = "query" =>
        /\ last.result[2].select
              = QualifiedColumns(database[kg[last.instance].db_path], last.args[1], 1)
        /\ \A k \in DOMAIN last.result[2].joins : last.result[2].joins[k].join \in Range(last.args[1])
\* A query for three different tables with two JOIN clauses.
C16_Witness ==
    /\ Asked("suggest_sql_query", TRUE) /\ last.result[1] = "query"
    /\ Cardinality(Range(last.args[1])) = 3
    /\ Len(last.result[2].joins) = 2
    /\ Len(last.result[2].select) > 3


\* The non-NULL values the database holds in column col of table t.
StoredValues(d, t, col) ==
    LET columns == TableColumns(d, t)
        c == CHOOSE k \in DOMAIN columns : columns[k].name = col
    IN {TableRows(d, t)[r][c] : r \in DOMAIN TableRows(d, t)} \ {PyNone}
\* How many rows of table t hold v in column col.
StoredCount(d, t, col, v) ==
    LET columns == TableColumns(d, t)
        c == CHOOSE k \in DOMAIN columns : columns[k].name = col
    IN Cardinality({r \in DOMAIN TableRows(d, t) : TableRows(d, t)[r][c] = v})
\* The statistics entries (column, stats) the graph of instance i holds for
\* table t.
SampledStats(i, t) ==
    IF HasNode(kg[i].graph, t) /\ "sample_data" \in kg[i].graph.attr[t].keys
    THEN kg[i].graph.attr[t].sample_data.stats ELSE <<>>

\* C17: the sampler stores common values for a column only when the column
\* has fewer than 20 distinct values; with 20 or more the list is empty,
\* with fewer it holds at most 5 (value, count) pairs, as many as there are
\* distinct values up to 5, each with the value's true count, in
\* non-increasing order of count, and no value has a higher count than the
\* ones listed.
C17_CommonValuesThreshold ==
    \A i \in Instances : \A t \in Names : \A k \in DOMAIN SampledStats(i, t) :
        LET d == database[kg[i].db_path]
            col == SampledStats(i, t)[k][1]
            stats == SampledStats(i, t)[k][2]
            common == stats.common_values[2]
            distinct == Cardinality(StoredValues(d, t, col))
        IN /\ stats.distinct_count = distinct
           /\ distinct >= 20 => common = <<>>
           /\ distinct < 20 =>
                /\ Len(common) = (IF distinct < 5 THEN distinct ELSE 5)
                /\ \A j \in DOMAIN common : common[j].count = StoredCount(d, t, col, common[j].value)
                /\ \A j \in 1..(Len(common) - 1) : common[j].count >= common[j + 1].count
                /\ \A j, l \in DOMAIN common : j # l => common[j].value # common[l].value
                /\ \A v \in StoredValues(d, t, col) :
                      (\A j \in DOMAIN common : common[j].value # v)
                      => StoredCount(d, t, col, v) <= common[Len(common)].count
\* A sampled table with a column of exactly 19 distinct values, 5 common
\* values of differing counts, next to a column of 20 or more.
C17_Witness ==
    \E i \in Instances : \E k, l \in DOMAIN SampledStats(i, "A") :
        /\ SampledStats(i, "A")[k][2].distinct_count = 19
        /\ Len(SampledStats(i, "A")[k][2].common_values[2]) = 5
        /\ SampledStats(i, "A")[k][2].common_values[2][1].count
              > SampledStats(i, "A")[k][2].common_values[2][5].count
        /\ SampledStats(i, "A")[l][2].distinct_count >= 20
        /\ SampledStats(i, "A")[l][2].common_values[2] = <<>>


\* C18: an initialize() that built the graph and could not persist the
\* snapshot returns with the instance initialized, and no cache file exists
\* afterwards, whatever file was there before and wherever the write failed.
C18_FailedPersistLeavesNoFile ==
    [][\A i \in Instances :
          /\ init_call[i].state = "running" /\ init_call'[i].state = "returned"
          /\ init_call'[i].path = "build" /\ ~init_call'[i].persisted
          => kg'[i].is_initialized /\ ~path_exists(cache_file')]_vars


\* C19: when _load_from_cache raises on a snapshot that passed the validity
\* check, initialize() raises and an uninitialized instance stays
\* uninitialized; and an instance that becomes Initialized without ever
\* having completed a reload holds nothing but what its build read from the
\* database: no node or edge of a partly loaded snapshot.
C19_ReloadFailurePropagates ==
    [][\A i \in Instances :
          /\ init_call'[i] # init_call[i] /\ init_call'[i].path = "load" /\ init_call'[i].exc # ""
             => /\ init_call'[i].state = "raised"
                /\ ~kg[i].is_initialized => ~kg'[i].is_initialized
          /\ ~init_call[i].completed /\ init_call'[i].completed /\ init_call'[i].path = "build"
             => /\ kg'[i].is_initialized
                /\ FromDatabase(DiGraph, kg'[i].graph, database[kg[i].db_path])]_vars


\* C20: the connection the build opened is open only while the build is
\* between its connect and the end of its finally clause: once
\* _build_from_db has returned or raised, whether at the table listing, at
\* a table description or after the last table, the DatabaseManager holds
\* no connection.
C20_ConnectionClosed ==
    \A i \in Instances : kg[i].db_open => kg[i].pc \in {"list", "tables", "close"}
\* One build has completed and another has raised after opening its
\* connection, at the table listing or at a table description, and both
\* are over.
C20_Witness ==
    \E i, j \in Instances :
        /\ init_call[i].path = "build" /\ init_call[i].state = "returned" /\ init_call[i].queried_db
        /\ init_call[j].path = "build" /\ init_call[j].state = "raised" /\ init_call[j].queried_db
        /\ init_call[j].exc = "JSONDecodeError"
        /\ kg[i].pc = "idle" /\ kg[j].pc = "idle" /\ ~kg[i].db_open /\ ~kg[j].db_open


\* What operation op answers for args on graph G of an initialized instance.
Answer(op, G, args) ==
    CASE op = "get_table_info" -> get_table_info(G, TRUE, args[1])
      [] op = "get_column_values" -> get_column_values(G, TRUE, args[1], args[2])
      [] op = "find_join_path" -> find_join_path(G, TRUE, args[1], args[2], args[3])
      [] op = "get_query_suggestion" -> get_query_suggestion(G, TRUE, args[1])
      [] op = "suggest_sql_query" -> suggest_sql_query(G, TRUE, args[1], <<>>)
      [] op = "tool_get_table_info" -> tool_get_table_info(G, TRUE, args[1])

KeysTo(d, u, v) ==
    IF u \in Range(d.tables) THEN {k \in DOMAIN d.fks[u] : d.fks[u][k].referenced_table = v} ELSE {}

\* C22: the graph of an initialized instance holds an edge u -> v exactly
\* when the database reports a foreign key of table u that references v,
\* holds it once, and its from_column and to_column are those of the last
\* such foreign key in the order reported.
C22_LastForeignKeyWins ==
    \A i \in Instances : kg[i].is_initialized =>
        LET G == kg[i].graph
            d == database[kg[i].db_path]
        IN \A u, v \in Names :
              /\ has_edge(G, u, v) <=> KeysTo(d, u, v) # {}
              /\ Cardinality({k \in DOMAIN G.succ[u] : G.succ[u][k] = v}) <= 1
              /\ has_edge(G, u, v) =>
                    LET last_fk == CHOOSE k \in KeysTo(d, u, v) : \A j \in KeysTo(d, u, v) : j <= k IN
                    /\ G.edge[<<u, v>>].from_column = d.fks[u][last_fk].column
                    /\ G.edge[<<u, v>>].to_column = d.fks[u][last_fk].referenced_column
\* An initialized instance over a table with two foreign keys to the same
\* table, next to a key to another table.
C22_Witness ==
    \E i \in Instances : \E u, v, w \in Names :
        /\ kg[i].is_initialized
        /\ Cardinality(KeysTo(database[kg[i].db_path], u, v)) = 2
        /\ v # w /\ has_edge(kg[i].graph, u, v) /\ has_edge(kg[i].graph, w, v)
        /\ kg[i].graph.edge[<<u, v>>].from_column = "fk2"


\* C23: a build over a database that lists its tables and cannot describe
\* one of them ends with initialize() returned and the instance
\* initialized, and every table that can be described is a table node.
C23_BrokenTableSkipped ==
    \A i \in Instances :
        LET d == database[kg[i].db_path] IN
        /\ init_call[i].path = "build" /\ init_call[i].state \in {"returned", "raised"}
        /\ init_call[i].queried_db
        /\ ~list_tables_names(d).error
        /\ \E t \in Range(d.tables) : describe_table(d, t).error
        => /\ init_call[i].state = "returned"
           /\ kg[i].is_initialized
           /\ \A t \in Range(d.tables) :
                 ~describe_table(d, t).error
                 => HasNode(kg[i].graph, t) /\ kg[i].graph.attr[t].type = "table"


\* The node of table t, as the build of instance i made it, holds the
\* sample data the sampler is to give on database d: nothing when the
\* bounded select fails; else the sampled rows and the statistics of
\* exactly the columns whose statistics queries succeed, in column order.
SampledAsSpecified(i, d, t) ==
    LET sample_data == kg[i].graph.attr[t].sample_data
        columns == TableColumns(d, t)
    IN /\ HasNode(kg[i].graph, t) /\ kg[i].graph.attr[t].type = "table"
       /\ "sample_data" \in kg[i].graph.attr[t].keys
       /\ SelectFails(d, t) => sample_data = [rows |-> <<>>, stats |-> <<>>]
       /\ ~SelectFails(d, t) =>
             /\ Len(sample_data.rows) = (IF Len(TableRows(d, t)) < SampleLimit THEN Len(TableRows(d, t)) ELSE SampleLimit)
             /\ \A r \in DOMAIN sample_data.rows : Len(sample_data.rows[r]) = Len(columns)
             /\ \A c \in DOMAIN columns :
                   /\ StatsFail(d, t, columns[c].name) => Lookup(sample_data.stats, columns[c].name) = <<>>
                   /\ ~StatsFail(d, t, columns[c].name)
                      => Lookup(sample_data.stats, columns[c].name) = <<ColumnStats(TableRows(d, t), c)>>

\* C24: a build that read every table's metadata returns, and every table
\* is a node with its sample data: {rows: [], stats: {}} when the bounded
\* select failed, else the sampled rows and the statistics without the
\* entries of the columns whose statistics failed.
C24_SamplingFailuresAbsorbed ==
    \A i \in Instances :
        LET d == database[kg[i].db_path] IN
        /\ (/\ init_call[i].path = "build" /\ init_call[i].state \in {"returned", "raised"}
            /\ init_call[i].queried_db
            /\ ~list_tables_names(d).error
            /\ \A t \in Range(d.tables) : ~describe_table(d, t).error
            => init_call[i].state = "returned" /\ kg[i].is_initialized)
        /\ init_call[i].path = "build" /\ init_call[i].state = "returned"
           => \A t \in Range(d.tables) : SampledAsSpecified(i, d, t)
\* A build has returned on a database where the statistics of A's first
\* column failed: A's node has its rows and the other column's statistics,
\* and B, the table after it, is a node too.
C24_Witness ==
    /\ init_call[1].path = "build" /\ init_call[1].state = "returned"
    /\ StatsFail(database["a.db"], "A", "id")
    /\ kg[1].graph.attr["A"].sample_data.rows # <<>>
    /\ Lookup(kg[1].graph.attr["A"].sample_data.stats, "id") = <<>>
    /\ Lookup(kg[1].graph.attr["A"].sample_data.stats, "fk1") # <<>>
    /\ kg[1].graph.attr["B"].type = "table"

\* C25 as stated: after a build, every column listed in a table node's
\* columns has an entry in the node's statistics map, for every table on
\* which the bounded select ran.
C25_EveryColumnHasStats ==
    \A i \in Instances :
        init_call[i].path = "build" /\ init_call[i].state = "returned" =>
            \A t \in Range(database[kg[i].db_path].tables) :
                ~SelectFails(database[kg[i].db_path], t) =>
                    \A c \in DOMAIN kg[i].graph.attr[t].columns :
                        Lookup(kg[i].graph.attr[t].sample_data.stats, kg[i].graph.attr[t].columns[c].name) # <<>>
\* C25: after a build, a column listed in a table node's columns has an
\* entry in the node's statistics map exactly when the bounded select on
\* the table and the column's statistics queries succeeded; the map has no
\* other entries, and its entries are in column order.
C25_ColumnHasStatsUnlessFailed ==
    \A i \in Instances :
        init_call[i].path = "build" /\ init_call[i].state = "returned" =>
            \A t \in Range(database[kg[i].db_path].tables) :
                LET d == database[kg[i].db_path]
                    columns == kg[i].graph.attr[t].columns
                    stats == kg[i].graph.attr[t].sample_data.stats
                    kept == SelectSeq(columns, LAMBDA col : ~SelectFails(d, t) /\ ~StatsFail(d, t, col.name))
                IN /\ Len(stats) = Len(kept)
                   /\ \A k \in DOMAIN stats : stats[k][1] = kept[k].name
\* A build has returned on a database where the statistics of A's second
\* column failed and those of its first succeeded.
C25_Witness ==
    /\ init_call[1].path = "build" /\ init_call[1].state = "returned"
    /\ StatsFail(database["a.db"], "A", "fk1")
    /\ Len(kg[1].graph.attr["A"].columns) = 2
    /\ Len(kg[1].graph.attr["A"].sample_data.stats) = 1
    /\ kg[1].graph.attr["A"].sample_data.stats[1][1] = "id"


\* The table that a qualified column text table.column names.
TableOf(text) ==
    CHOOSE t \in Names : \E c \in {"id"} \cup Range(FkColumns) : text = t \o "." \o c

\* C26: a query suggest_sql_query returns for distinct requested tables
\* names each requested table exactly once among its FROM table and its
\* JOIN targets, and each ON condition names only the FROM table and the
\* targets of that and of earlier JOIN clauses.
C26_QueryWellFormed ==
    /\ Asked("suggest_sql_query", TRUE) /\ last.result[1] = "query"
    /\ Cardinality(Range(last.args[1])) = Len(last.args[1])
    => LET query == last.result[2]
           named == <<query.from>> \o [k \in DOMAIN query.joins |-> query.joins[k].join]
       IN /\ \A t \in Range(last.args[1]) : Cardinality({k \in DOMAIN named : named[k] = t}) = 1
          /\ \A k \in DOMAIN query.joins : \A side \in 1..2 :
                TableOf(query.joins[k].on[side]) \in {named[j] : j \in 1..(k + 1)}


\* C27: get_query_suggestion, asked for two or more tables, ends with None
\* or with a plan whose join_order has one entry for every entry of the
\* request, each pass of the loop having taken one; for distinct requested
\* tables join_order holds each of them exactly once, and table_columns,
\* filled from the caller's list after the loop, has the requested tables
\* as its keys in request order: the list was not consumed.
C27_PlanCoversRequest ==
    Asked("get_query_suggestion", TRUE) /\ Len(last.args[1]) >= 2 =>
        \/ last.result = PyNone
        \/ /\ last.result[1] = "dict"
           /\ Len(last.result[2].join_order) = Len(last.args[1])
           /\ Cardinality(Range(last.args[1])) = Len(last.args[1]) =>
                 /\ \A t \in Range(last.args[1]) :
                       Cardinality({k \in DOMAIN last.result[2].join_order : last.result[2].join_order[k] = t}) = 1
                 /\ [k \in DOMAIN last.result[2].table_columns |-> last.result[2].table_columns[k][1]]
                       = last.args[1]
\* A plan for three distinct tables, made by the greedy loop, that joins
\* them in another order than the request's.
C27_Witness ==
    /\ Asked("get_query_suggestion", TRUE) /\ last.result # PyNone
    /\ Len(last.args[1]) = 3 /\ Cardinality(Range(last.args[1])) = 3
    /\ last.result[2].join_order # last.args[1]
    /\ Len(last.result[2].joins) = 2


\* C28: the nodes of the graph of an instance initialized by a build are
\* exactly the tables the database lists, and every node carries the table
\* attributes columns, primary_keys and sample_data.
C28_NodesAreTables ==
    \A i \in Instances :
        init_call[i].path = "build" /\ init_call[i].state = "returned" =>
            /\ Range(kg[i].graph.node) = Range(database[kg[i].db_path].tables)
            /\ \A n \in Range(kg[i].graph.node) :
                  {"columns", "primary_keys", "sample_data"} \subseteq kg[i].graph.attr[n].keys


\* C30: when the graph answers get_table_info with a not-found error, the
\* text of the agent's get_table_info tool holds the error's words, and is
\* not the text of a table that has no columns.
C30_ToolReportsNotFound ==
    /\ Asked("tool_get_table_info", TRUE)
    /\ NotFound(get_table_info(kg[last.instance].graph, TRUE, last.args[1]))
    => /\ \E k \in DOMAIN last.result :
             "' not found in graph" \in Range(last.result[k])
       /\ last.result # <<<<"### Table: ", last.args[1]>>, <<"#### Columns:">>>>

\* C29: in the chat application, once one session's on_chat_start has
\* completed, the knowledge graph a message handler puts in the dependencies
\* is an initialized instance, also while another session's on_chat_start
\* is still running.
C29_HandlerGetsInitializedGraph ==
    (last.op = "main" /\ \E s \in Instances : init_call[s].state = "returned")
        => /\ last.result[2].kg # <<>>
           /\ kg[last.result[2].kg[1]].is_initialized

====
